---------------------------- MODULE Spec2Model ----------------------------
(***************************************************************************)
(* Counterfactual nuclear rollout: the capacity ledger, the fossil closure *)
(* selector, the year/unit simulation loop and the emissions projector of  *)
(* scripts/build_counterfactual.py.                                        *)
(*                                                                         *)
(* Numbers.  The program computes in binary floating point; the model      *)
(* computes in fixed point.  A capacity is an integer number of 0.02 MW    *)
(* steps (50 steps = 1 MW, Tenth = 5 steps = 0.1 MW), so that round(x, 1)  *)
(* is a real rounding with no ties.  An energy is an integer number of     *)
(* 0.001 TWh steps (Hundredth = 10 steps = 0.01 TWh).  The program's       *)
(* 1e-6 tolerances are below one step and become 0.                        *)
(***************************************************************************)
EXTENDS Integers, Sequences, FiniteSets, TLC

(***************************************************************************)
(* Program constants                                                       *)
(***************************************************************************)
START_YEAR == 1989
BUILD_START_YEAR == 1990
RENEWABLE_FREEZE_YEAR == 1998
HOURS_PER_YEAR == 8760
\* NUCLEAR_CAPACITY_FACTOR = 0.90, in percent
NUCLEAR_CAPACITY_FACTOR_PCT == 90
\* round(x, 1): one tenth of a MW, in capacity steps
Tenth == 5
\* one MW, in capacity steps
MW == 10 * Tenth
\* round(x, 2): one hundredth of a TWh, in energy steps
Hundredth == 10
\* one TWh, in energy steps
TWh == 100 * Hundredth
\* the 1e-6 tolerance of the selector and of the rollback test, in steps
Eps == 0
\* the sentinel commission year of the sort key
NO_YEAR_SORT_KEY == 9999
\* an absent (NA / None) year
None == -1

NUCLEAR_CAPACITY_SEQUENCE == <<1410 * MW>>
UNITS_PER_YEAR_PATTERN == <<2, 1>>
FOSSIL_FUELS == {"hard_coal", "lignite", "natural_gas", "oil"}

(***************************************************************************)
(* Bounds of the model                                                     *)
(***************************************************************************)
\* the simulated years are START_YEAR .. START_YEAR + NumYears - 1
NumYears == 4
\* plants in the registry
NumPlants == 4

END_YEAR == START_YEAR + NumYears - 1

(***************************************************************************)
(* Arithmetic helpers                                                      *)
(***************************************************************************)
Max(a, b) == IF a >= b THEN a ELSE b
Min(a, b) == IF a <= b THEN a ELSE b

\* round(x, 1) for x >= 0: the nearest multiple of Tenth (x is never a tie)
Round1(x) == Tenth * ((x + Tenth \div 2) \div Tenth)

\* the largest integer of the arithmetic
MAX_INT == 2147483647

\* <<q, r>> with a * b = q * c + r and 0 <= r < c; a * b is formed only when
\* it stays in range, and b is halved otherwise
RECURSIVE MulDivRem(_, _, _)
MulDivRem(a, b, c) ==
    IF a = 0 \/ b = 0 THEN <<0, 0>>
    ELSE IF a <= MAX_INT \div b THEN <<(a * b) \div c, (a * b) % c>>
    ELSE LET h == MulDivRem(a, b \div 2, c)
             t == 2 * h[2] + (b % 2) * a
         IN  <<2 * h[1] + t \div c, t % c>>

\* a * b / c rounded to the nearest step (a, b >= 0, c > 0)
MulDiv(a, b, c) ==
    LET qr == MulDivRem(a, b, c)
    IN  IF 2 * qr[2] >= c THEN qr[1] + 1 ELSE qr[1]

RECURSIVE SumSeq(_)
SumSeq(s) == IF s = <<>> THEN 0 ELSE Head(s) + SumSeq(Tail(s))

(***************************************************************************)
(* Text: a name is a sequence of characters, so that the keyword tests are *)
(* real substring searches                                                 *)
(***************************************************************************)
UPPER == <<"A","B","C","D","E","F","G","H","I","J","K","L","M","N","O","P",
           "Q","R","S","T","U","V","W","X","Y","Z","Ä">>
LOWER == <<"a","b","c","d","e","f","g","h","i","j","k","l","m","n","o","p",
           "q","r","s","t","u","v","w","x","y","z","ä">>

LowerChar(c) ==
    IF \E i \in DOMAIN UPPER : UPPER[i] = c
    THEN LOWER[CHOOSE i \in DOMAIN UPPER : UPPER[i] = c]
    ELSE c

\* str.lower()
Lower(s) == [i \in DOMAIN s |-> LowerChar(s[i])]

\* pat in s
Contains(s, pat) ==
    \E i \in 1..(Len(s) - Len(pat) + 1) : SubSeq(s, i, i + Len(pat) - 1) = pat

COGEN_KEYWORDS ==
    { <<"c","h","p">>, <<"k","w","k">>, <<"c","o","g","e","n">>,
      <<"c","o","g","e","n","e","r","a","t","i","o","n">>,
      <<"f","e","r","n">>, <<"w","a","r","m","e">>, <<"w","ä","r","m","e">>,
      <<"h","e","i","z">> }

EXCLUDED_FOSSIL_PATTERNS ==
    { <<"H","K","W">>, <<"H","e","i","z">>, <<"F","e","r","n">>,
      <<"W","ä","r","m","e">>, <<"K","W","K">>, <<"C","o","g","e","n">>,
      <<"C","H","P">> }

FUEL_PRIORITY(fuel) ==
    CASE fuel = "lignite" -> 0
      [] fuel = "hard_coal" -> 0
      [] fuel = "oil" -> 1
      [] fuel = "natural_gas" -> 2
      [] OTHER -> 3

\* an activity filter that drops a plant in its closure year
IsActive_UntilClosureYear(p, year) ==
    /\ (p.commission_year = None \/ p.commission_year <= year)
    /\ (p.closure_year = None \/ p.closure_year > year)

(***************************************************************************)
(* CapacityLedger                                                          *)
(***************************************************************************)
\* the activity filter of the ledger: commission year absent or <= year,
\* closure year absent or >= year
IsActive(p, year) ==
    /\ (p.commission_year = None \/ p.commission_year <= year)
    /\ (p.closure_year = None \/ p.closure_year >= year)

\* sum of capacity_mw over the plants of a sequence
RECURSIVE SumCapacity(_)
SumCapacity(ps) ==
    IF ps = <<>> THEN 0 ELSE Head(ps).capacity_mw + SumCapacity(Tail(ps))

\* one row of compute_capacity_by_year
CapacityRow(ps, year) ==
    LET active == SelectSeq(ps, LAMBDA p : IsActive(p, year))
        nuclear_mw == SumCapacity(SelectSeq(active, LAMBDA p : p.fuel_bucket = "nuclear"))
        fossil_mw == SumCapacity(SelectSeq(active, LAMBDA p : p.fuel_bucket \in FOSSIL_FUELS))
        other_mw == SumCapacity(SelectSeq(active,
                        LAMBDA p : p.fuel_bucket \notin (FOSSIL_FUELS \cup {"nuclear"})))
    IN  [year |-> year, nuclear_mw |-> nuclear_mw, fossil_mw |-> fossil_mw,
         other_mw |-> other_mw, total_mw |-> nuclear_mw + fossil_mw + other_mw]

compute_capacity_by_year(ps, start_year, end_year) ==
    [i \in 1..(end_year - start_year + 1) |-> CapacityRow(ps, start_year + i - 1)]

\* one row of compute_fossil_breakdown_by_year: fuel -> MW
BreakdownRow(ps, year) ==
    LET active == SelectSeq(ps, LAMBDA p : IsActive(p, year))
    IN  [year |-> year,
         mw |-> [fuel \in FOSSIL_FUELS |->
                    SumCapacity(SelectSeq(active, LAMBDA p : p.fuel_bucket = fuel))]]

compute_fossil_breakdown_by_year(ps, start_year, end_year) ==
    [i \in 1..(end_year - start_year + 1) |-> BreakdownRow(ps, start_year + i - 1)]

\* sum of the four sub-fuel buckets of a breakdown
SumBreakdown(bd) == bd["hard_coal"] + bd["lignite"] + bd["natural_gas"] + bd["oil"]

(***************************************************************************)
(* FossilClosureSelector                                                   *)
(***************************************************************************)
\* is_cogen of as_records: a keyword occurs in lower(name + " " + technology)
IsCogeneration(p) ==
    LET text_blob == Lower(p.name \o <<" ">> \o p.technology)
    IN  \E keyword \in COGEN_KEYWORDS : Contains(text_blob, keyword)

\* the mask of build_fossil_candidate_pools: no excluded pattern occurs in
\* the name, case-insensitively
InPrimaryMask(p) ==
    \A pattern \in EXCLUDED_FOSSIL_PATTERNS : ~Contains(Lower(p.name), Lower(pattern))

\* a missing cell of the registry frame (pandas NaN)
NaN == <<"nan", "float">>

\* PlantRecord.municipality: the cell when it is a string, else ""
RecordMunicipality(p) == IF p.municipality = NaN THEN <<>> ELSE p.municipality

\* the PlantRecord of registry row i
AsRecord(ps, i) ==
    [record_id |-> i,
     name |-> ps[i].name,
     municipality |-> RecordMunicipality(ps[i]),
     fuel_bucket |-> ps[i].fuel_bucket,
     technology |-> ps[i].technology,
     capacity_mw |-> ps[i].capacity_mw,
     commission_year |-> ps[i].commission_year,
     closure_year |-> ps[i].closure_year,
     is_cogeneration |-> IsCogeneration(ps[i])]

\* a sort key with the commission year ahead of the fuel priority
SortKey_AgeFirst(r) ==
    <<IF r.commission_year # None THEN r.commission_year ELSE NO_YEAR_SORT_KEY,
      FUEL_PRIORITY(r.fuel_bucket),
      IF r.is_cogeneration THEN 1 ELSE 0,
      r.capacity_mw>>

\* a sort key with the capacity ahead of the commission year
SortKey_CapacityFirst(r) ==
    <<FUEL_PRIORITY(r.fuel_bucket),
      IF r.is_cogeneration THEN 1 ELSE 0,
      r.capacity_mw,
      IF r.commission_year # None THEN r.commission_year ELSE NO_YEAR_SORT_KEY>>

\* the sort key of as_records
SortKey(r) ==
    <<FUEL_PRIORITY(r.fuel_bucket),
      IF r.is_cogeneration THEN 1 ELSE 0,
      IF r.commission_year # None THEN r.commission_year ELSE NO_YEAR_SORT_KEY,
      r.capacity_mw>>

\* tuple comparison k1 <= k2
KeyLeq(k1, k2) ==
    \/ k1 = k2
    \/ \E i \in 1..4 : k1[i] < k2[i] /\ \A j \in 1..(i - 1) : k1[j] = k2[j]

\* r put into an already sorted sequence, after every element whose key is
\* not greater (list.sort is stable)
RECURSIVE InsertSorted(_, _)
InsertSorted(r, sorted) ==
    IF sorted = <<>> THEN <<r>>
    ELSE IF KeyLeq(SortKey(Head(sorted)), SortKey(r))
         THEN <<Head(sorted)>> \o InsertSorted(r, Tail(sorted))
         ELSE <<r>> \o sorted

RECURSIVE SortRecordsFrom(_, _)
SortRecordsFrom(rs, sorted) ==
    IF rs = <<>> THEN sorted
    ELSE SortRecordsFrom(Tail(rs), InsertSorted(Head(rs), sorted))

SortRecords(rs) == SortRecordsFrom(rs, <<>>)

\* the records of the fossil rows of the registry, in registry order
FossilRecords(ps) ==
    LET ids == SelectSeq([i \in 1..Len(ps) |-> i],
                         LAMBDA i : ps[i].fuel_bucket \in FOSSIL_FUELS)
    IN  [k \in 1..Len(ids) |-> AsRecord(ps, ids[k])]

\* build_fossil_candidate_pools
PrimaryPool(ps) ==
    SortRecords(SelectSeq(FossilRecords(ps), LAMBDA r : InPrimaryMask(r)))

FallbackPool(ps) ==
    SortRecords(SelectSeq(FossilRecords(ps), LAMBDA r : ~InPrimaryMask(r)))

\* the test of a candidate without the comparison of its capacity with the
\* remaining need
Accepts_IgnoreFit(record, year, remaining_needed, closed_ids) ==
    /\ record.record_id \notin closed_ids
    /\ ~(record.commission_year # None /\ record.commission_year > year)
    /\ ~(record.closure_year # None /\ record.closure_year < year)

\* the test of a candidate without the closure year
Accepts_IgnoreClosureYear(record, year, remaining_needed, closed_ids) ==
    /\ record.record_id \notin closed_ids
    /\ ~(record.commission_year # None /\ record.commission_year > year)
    /\ ~(record.capacity_mw > remaining_needed + Eps)

\* variant of Accepts: the test against closed_ids is left out
Accepts_IgnoreClosedIds(record, year, remaining_needed, closed_ids) ==
    /\ ~(record.commission_year # None /\ record.commission_year > year)
    /\ ~(record.closure_year # None /\ record.closure_year < year)
    /\ ~(record.capacity_mw > remaining_needed + Eps)

\* variant of Accepts: the tests of the commission and closure year are left out
Accepts_IgnoreYears(record, year, remaining_needed, closed_ids) ==
    /\ record.record_id \notin closed_ids
    /\ ~(record.capacity_mw > remaining_needed + Eps)

\* variant of Accepts: a candidate of up to twice the remaining need fits
Accepts_FitWithinTwice(record, year, remaining_needed, closed_ids) ==
    /\ record.record_id \notin closed_ids
    /\ ~(record.commission_year # None /\ record.commission_year > year)
    /\ ~(record.closure_year # None /\ record.closure_year < year)
    /\ ~(record.capacity_mw > 2 * remaining_needed + Eps)

\* whether consume() accepts record: not closed, commissioned by year, not
\* closed before year, and not larger than the remaining need
Accepts(record, year, remaining_needed, closed_ids) ==
    /\ record.record_id \notin closed_ids
    /\ ~(record.commission_year # None /\ record.commission_year > year)
    /\ ~(record.closure_year # None /\ record.closure_year < year)
    /\ ~(record.capacity_mw > remaining_needed + Eps)

\* consume(pool): st = [closings, closed_ids, total_closed, remaining_needed]
RECURSIVE Consume(_, _, _, _)
Consume(pool, year, capacity_needed, st) ==
    IF pool = <<>> \/ st.remaining_needed <= Eps THEN st
    ELSE LET record == Head(pool)
         IN  IF Accepts(record, year, st.remaining_needed, st.closed_ids)
             THEN LET total == st.total_closed + record.capacity_mw
                  IN  Consume(Tail(pool), year, capacity_needed,
                          [closings |-> Append(st.closings, record),
                           closed_ids |-> st.closed_ids \cup {record.record_id},
                           total_closed |-> total,
                           remaining_needed |-> Max(0, capacity_needed - total)])
             ELSE Consume(Tail(pool), year, capacity_needed, st)

\* a selector that scans the fallback pool ahead of the primary pool
pick_fossil_closures_FallbackFirst(year, capacity_needed, running_fossil_mw, primary_pool, fallback_pool, closed_ids) ==
    IF running_fossil_mw <= 0 \/ capacity_needed <= Eps
    THEN [closings |-> <<>>, total_closed |-> 0, closed_ids |-> closed_ids]
    ELSE LET st1 == Consume(fallback_pool, year, capacity_needed,
                        [closings |-> <<>>, closed_ids |-> closed_ids,
                         total_closed |-> 0, remaining_needed |-> capacity_needed])
             st2 == IF st1.remaining_needed > Eps
                    THEN Consume(primary_pool, year, capacity_needed, st1)
                    ELSE st1
         IN  [closings |-> st2.closings,
              total_closed |-> Min(st2.total_closed, running_fossil_mw),
              closed_ids |-> st2.closed_ids]

\* a selector that keeps only the ids of its own call in closed_ids
pick_fossil_closures_OwnIdsOnly(year, capacity_needed, running_fossil_mw, primary_pool, fallback_pool, closed_ids) ==
    LET st == IF running_fossil_mw <= 0 \/ capacity_needed <= Eps
              THEN [closings |-> <<>>, total_closed |-> 0]
              ELSE LET st1 == Consume(primary_pool, year, capacity_needed,
                                  [closings |-> <<>>, closed_ids |-> closed_ids,
                                   total_closed |-> 0, remaining_needed |-> capacity_needed])
                   IN  IF st1.remaining_needed > Eps
                       THEN Consume(fallback_pool, year, capacity_needed, st1)
                       ELSE st1
    IN  [closings |-> st.closings,
         total_closed |-> Min(st.total_closed, running_fossil_mw),
         closed_ids |-> {st.closings[i].record_id : i \in DOMAIN st.closings}]

\* pick_fossil_closures: [closings, total_closed, closed_ids]
pick_fossil_closures(year, capacity_needed, running_fossil_mw, primary_pool, fallback_pool, closed_ids) ==
    IF running_fossil_mw <= 0 \/ capacity_needed <= 0 \/ Max(capacity_needed, 0) <= Eps
    THEN [closings |-> <<>>, total_closed |-> 0, closed_ids |-> closed_ids]
    ELSE LET st0 == [closings |-> <<>>, closed_ids |-> closed_ids,
                     total_closed |-> 0,
                     remaining_needed |-> Max(capacity_needed, 0)]
             st1 == Consume(primary_pool, year, capacity_needed, st0)
             st2 == IF st1.remaining_needed > Eps
                    THEN Consume(fallback_pool, year, capacity_needed, st1)
                    ELSE st1
         IN  [closings |-> st2.closings,
              total_closed |-> Min(st2.total_closed, running_fossil_mw),
              closed_ids |-> st2.closed_ids]

(***************************************************************************)
(* The actual (historical) capacity series                                 *)
(***************************************************************************)
\* str.strip() of blanks
RECURSIVE StripLeft(_)
StripLeft(s) == IF s # <<>> /\ Head(s) = " " THEN StripLeft(Tail(s)) ELSE s

RECURSIVE StripRight(_)
StripRight(s) ==
    IF s # <<>> /\ s[Len(s)] = " " THEN StripRight(SubSeq(s, 1, Len(s) - 1)) ELSE s

Strip(s) == StripRight(StripLeft(s))

\* FUEL_TYPE_MAP.get(str(type).lower().strip(), None); <<>> stands for None
FUEL_TYPE_MAP(type) ==
    LET key == Strip(Lower(type))
    IN  CASE key = <<"c","o","a","l">> -> "hard_coal"
          [] key = <<"h","a","r","d"," ","c","o","a","l">> -> "hard_coal"
          [] key = <<"h","a","r","d","_","c","o","a","l">> -> "hard_coal"
          [] key = <<"l","i","g","n","i","t","e">> -> "lignite"
          [] key = <<"g","a","s">> -> "natural_gas"
          [] key = <<"n","a","t","u","r","a","l"," ","g","a","s">> -> "natural_gas"
          [] key = <<"n","a","t","u","r","a","l","_","g","a","s">> -> "natural_gas"
          [] key = <<"o","i","l">> -> "oil"
          [] OTHER -> "none"

\* the rows of the fossil-build list commissioned in start_year..end_year
BuildsInRange(builds, start_year, end_year) ==
    SelectSeq(builds, LAMBDA b : /\ b.commission_year # None
                                 /\ b.commission_year >= start_year
                                 /\ b.commission_year <= end_year)

\* running_add at the row of `year`: the capacity of the builds of the range
\* commissioned up to that year
RunningAdd(builds, start_year, end_year, year) ==
    SumCapacity(SelectSeq(BuildsInRange(builds, start_year, end_year),
                          LAMBDA b : b.commission_year <= year))

\* the capacity frame returned by apply_fossil_builds_to_capacity
AdjustedCapacityRow(row, builds, start_year, end_year) ==
    LET fossil_mw == row.fossil_mw + RunningAdd(builds, start_year, end_year, row.year)
    IN  [year |-> row.year, nuclear_mw |-> row.nuclear_mw, fossil_mw |-> fossil_mw,
         other_mw |-> row.other_mw,
         total_mw |-> row.nuclear_mw + fossil_mw + row.other_mw]

\* the breakdown frame returned by apply_fossil_builds_to_capacity
AdjustedBreakdownRow(row, builds, start_year, end_year) ==
    LET mapped(fuel) ==
            SelectSeq(BuildsInRange(builds, start_year, end_year),
                      LAMBDA b : FUEL_TYPE_MAP(b.type) = fuel /\ row.year >= b.commission_year)
    IN  [year |-> row.year,
         mw |-> [fuel \in FOSSIL_FUELS |-> row.mw[fuel] + SumCapacity(mapped(fuel))]]

apply_fossil_builds_to_capacity(capacity, builds, start_year, end_year) ==
    [i \in DOMAIN capacity |-> AdjustedCapacityRow(capacity[i], builds, start_year, end_year)]

apply_fossil_builds_to_breakdown(breakdown, builds, start_year, end_year) ==
    [i \in DOMAIN breakdown |-> AdjustedBreakdownRow(breakdown[i], builds, start_year, end_year)]

(***************************************************************************)
(* CounterfactualSimulator: the values computed before the year loop       *)
(***************************************************************************)
\* a municipality cell that is missing in the registry (a float NaN)
TXT_RESIDUAL == <<"R","e","s","i","d","u","a","l"," ","f","o","s","s","i","l"," ","f","l","e","e","t">>
TXT_NEW_COMPLEX == <<"N","e","w"," ","N","u","c","l","e","a","r"," ","C","o","m","p","l","e","x">>
TXT_GENERIC == <<"G","e","n","e","r","i","c"," ","N","u","c","l","e","a","r"," ","C","o","m","p","l","e","x">>
TXT_UNIT == <<"U","n","i","t"," ">>
DIGITS == <<"0","1","2","3","4","5","6","7","8","9">>

\* str(n) for 0 <= n < 100
IntText(n) ==
    IF n < 10 THEN <<DIGITS[n + 1]>> ELSE <<DIGITS[(n \div 10) + 1], DIGITS[(n % 10) + 1]>>

\* characters in code point order, for the comparison of strings
CHAR_ORDER == <<" ","(",")","0","1","2","3","4","5","6","7","8","9">> \o
              SubSeq(UPPER, 1, 26) \o <<"_">> \o SubSeq(LOWER, 1, 26) \o <<"Ä","ä">>

CharRank(c) == CHOOSE i \in DOMAIN CHAR_ORDER : CHAR_ORDER[i] = c

\* s < t for strings
RECURSIVE TextLess(_, _)
TextLess(s, t) ==
    IF t = <<>> THEN FALSE
    ELSE IF s = <<>> THEN TRUE
    ELSE IF Head(s) = Head(t) THEN TextLess(Tail(s), Tail(t))
    ELSE CharRank(Head(s)) < CharRank(Head(t))

\* PlantRecord.descriptor
Descriptor(r) ==
    LET municipality == Strip(r.municipality)
    IN  IF municipality # <<>>
        THEN r.name \o <<" ", "(">> \o municipality \o <<")">>
        ELSE r.name

\* the keys one registry row puts into plant_municipality_map
MapKeys(p) ==
    IF p.municipality = NaN THEN {}
    ELSE {Strip(p.name),
          Strip(p.name) \o <<" ", "(">> \o Strip(p.municipality) \o <<")">>,
          Strip(p.municipality)}

\* plant_municipality_map.get(key, ""): the last row that sets key wins
RECURSIVE MunicipalityMapGet(_, _)
MunicipalityMapGet(ps, key) ==
    IF ps = <<>> THEN <<>>
    ELSE LET p == ps[Len(ps)]
         IN  IF key \in MapKeys(p) THEN Strip(p.municipality)
             ELSE MunicipalityMapGet(SubSeq(ps, 1, Len(ps) - 1), key)

\* the rows build_municipality_baselines looks at: active at START_YEAR and
\* nuclear or fossil
BaselineRows(ps) ==
    SelectSeq(ps, LAMBDA p : /\ IsActive(p, START_YEAR)
                             /\ (p.fuel_bucket = "nuclear" \/ p.fuel_bucket \in FOSSIL_FUELS))

\* (row.municipality or "").strip() raises AttributeError on a NaN cell
BaselinesRaise(ps) ==
    \E i \in DOMAIN BaselineRows(ps) : BaselineRows(ps)[i].municipality = NaN

\* build_municipality_baselines(plants)["nuclear"] as a sequence of
\* [key, count] in insertion order; a plant name is counted once
RECURSIVE NuclearBaselines(_, _, _)
NuclearBaselines(rows, seen, acc) ==
    IF rows = <<>> THEN acc
    ELSE LET p == Head(rows)
             municipality == Strip(p.municipality)
             uniq == Strip(p.name)
         IN  IF p.fuel_bucket # "nuclear" \/ municipality = <<>> \/ uniq \in seen
             THEN NuclearBaselines(Tail(rows), seen, acc)
             ELSE LET at == {i \in DOMAIN acc : acc[i].key = municipality}
                  IN  IF at = {}
                      THEN NuclearBaselines(Tail(rows), seen \cup {uniq},
                               Append(acc, [key |-> municipality, count |-> 1]))
                      ELSE NuclearBaselines(Tail(rows), seen \cup {uniq},
                               [i \in DOMAIN acc |->
                                   IF i \in at
                                   THEN [key |-> acc[i].key, count |-> acc[i].count + 1]
                                   ELSE acc[i]])

build_municipality_baselines(ps) == NuclearBaselines(BaselineRows(ps), {}, <<>>)

\* canonical key of a baseline municipality
Canonical(ps, raw_key) ==
    LET mapped == MunicipalityMapGet(ps, raw_key)
        canonical == Strip(IF mapped # <<>> THEN mapped ELSE raw_key)
    IN  IF canonical = <<>> THEN raw_key ELSE canonical

\* dict.get(key, 0) on a counter
CounterGet(counter, key) == IF key \in DOMAIN counter THEN counter[key] ELSE 0

\* counter[key] = value
CounterSet(counter, key, value) ==
    [k \in DOMAIN counter \cup {key} |-> IF k = key THEN value ELSE counter[k]]

\* site_unit_counter after the baseline loop
RECURSIVE InitialSiteCounter(_, _, _)
InitialSiteCounter(ps, baselines, counter) ==
    IF baselines = <<>> THEN counter
    ELSE LET canonical == Canonical(ps, Head(baselines).key)
         IN  InitialSiteCounter(ps, Tail(baselines),
                 CounterSet(counter, canonical,
                            CounterGet(counter, canonical) + Head(baselines).count))

\* list(dict.fromkeys(xs)): first occurrences, in order
RECURSIVE Dedupe(_, _)
Dedupe(xs, acc) ==
    IF xs = <<>> THEN acc
    ELSE IF \E i \in DOMAIN acc : acc[i] = Head(xs)
         THEN Dedupe(Tail(xs), acc)
         ELSE Dedupe(Tail(xs), Append(acc, Head(xs)))

\* existing_nuclear_sites: the names of the nuclear rows, or the generic one
ExistingNuclearSites(ps) ==
    LET rows == SelectSeq(ps, LAMBDA p : p.fuel_bucket = "nuclear")
    IN  IF rows = <<>> THEN <<TXT_GENERIC>> ELSE [i \in DOMAIN rows |-> rows[i].name]

\* baseline_existing_sites
BaselineExistingSites(ps) ==
    LET baselines == build_municipality_baselines(ps)
        sites == [i \in DOMAIN baselines |-> Canonical(ps, baselines[i].key)]
        names == ExistingNuclearSites(ps)
        fallback_labels ==
            [i \in DOMAIN names |->
                LET mapped == MunicipalityMapGet(ps, names[i])
                IN  Strip(IF mapped # <<>> THEN mapped ELSE names[i])]
    IN  IF sites # <<>> THEN Dedupe(sites, <<>>)
        ELSE SelectSeq(fallback_labels, LAMBDA label : label # <<>>)

(***************************************************************************)
(* CounterfactualSimulator: one build event                                *)
(***************************************************************************)
\* units_this_year without the rotation through the pattern
UnitsThisYear_FirstOfPattern(year) ==
    IF year < BUILD_START_YEAR THEN 0 ELSE UNITS_PER_YEAR_PATTERN[1]

\* units_this_year
UnitsThisYear(year) ==
    IF year < BUILD_START_YEAR THEN 0
    ELSE UNITS_PER_YEAR_PATTERN[((year - BUILD_START_YEAR) % Len(UNITS_PER_YEAR_PATTERN)) + 1]

\* EVENT_MONTHS.get(units_this_year, [6, 9, 12])
EVENT_MONTHS(units_this_year) ==
    CASE units_this_year = 1 -> <<7>>
      [] units_this_year = 2 -> <<4, 10>>
      [] units_this_year = 3 -> <<3, 7, 11>>
      [] OTHER -> <<6, 9, 12>>

\* event_date, as <<year, month, day>>
EventDate(year, units_this_year, unit_index) ==
    LET months == EVENT_MONTHS(units_this_year)
    IN  <<year, months[Min(unit_index, Len(months) - 1) + 1], 1>>

\* the row of the actual capacity series used for `year`: the first row of
\* that year, or the last row of the frame when there is none
ActualRowYear(capacity, year) ==
    LET at == {i \in DOMAIN capacity : capacity[i].year = year}
    IN  IF at = {} THEN capacity[Len(capacity)]
        ELSE capacity[CHOOSE i \in at : \A j \in at : i <= j]

\* fossil_floor_mw
FossilFloor(actual_total_mw, nuclear_after, other_capacity) ==
    Max(0, actual_total_mw - (nuclear_after + other_capacity))

\* allowed_shutdown_mw
AllowedShutdown(fossil_before_closure, fossil_floor_mw) ==
    Max(0, fossil_before_closure - fossil_floor_mw)

\* a closure target that ignores the headroom above the floor
ClosureTarget_NoHeadroom(capacity_added, allowed_shutdown_mw) == capacity_added

\* closure_target_mw
ClosureTarget(capacity_added, allowed_shutdown_mw) ==
    Min(capacity_added, allowed_shutdown_mw)

\* a rollback that leaves the ids of the plants selected in closed_ids
Rollback_KeepIds(picked, closure_target_mw) ==
    IF picked.total_closed > closure_target_mw + Eps
    THEN [closings |-> <<>>, fossil_closed |-> 0, closure_target_mw |-> 0,
          closed_ids |-> picked.closed_ids,
          returned |-> picked.closings, reported |-> picked.total_closed,
          rolled_back |-> TRUE]
    ELSE [closings |-> picked.closings, fossil_closed |-> picked.total_closed,
          closure_target_mw |-> closure_target_mw,
          closed_ids |-> picked.closed_ids,
          returned |-> picked.closings, reported |-> picked.total_closed,
          rolled_back |-> FALSE]

\* lines 509-514: the overshoot rollback applied to what the selector
\* returned; `returned` and `reported` are the selector's closings and total
Rollback(picked, closure_target_mw) ==
    IF picked.total_closed > closure_target_mw + Eps
    THEN [closings |-> <<>>, fossil_closed |-> 0, closure_target_mw |-> 0,
          closed_ids |-> picked.closed_ids \
                            {picked.closings[i].record_id : i \in DOMAIN picked.closings},
          returned |-> picked.closings, reported |-> picked.total_closed,
          rolled_back |-> TRUE]
    ELSE [closings |-> picked.closings, fossil_closed |-> picked.total_closed,
          closure_target_mw |-> closure_target_mw,
          closed_ids |-> picked.closed_ids,
          returned |-> picked.closings, reported |-> picked.total_closed,
          rolled_back |-> FALSE]

\* the selector call of a build event followed by the overshoot rollback
SelectClosures(year, closure_target_mw, running_fossil_mw, primary_pool, fallback_pool, closed_ids) ==
    Rollback(IF closure_target_mw > 0
             THEN pick_fossil_closures(year, closure_target_mw, running_fossil_mw,
                                       primary_pool, fallback_pool, closed_ids)
             ELSE [closings |-> <<>>, total_closed |-> 0, closed_ids |-> closed_ids],
             closure_target_mw)

\* an event that leaves the shortfall of the selector unclosed
ResidualClosure_None(closure_target_mw, fossil_closed) == 0

\* residual_closure_mw
ResidualClosure(closure_target_mw, fossil_closed) ==
    IF closure_target_mw > 0 /\ fossil_closed < closure_target_mw
    THEN closure_target_mw - fossil_closed
    ELSE 0

\* a bucket of running_fossil_breakdown after `decrement` is taken from it
BucketAfter(bucket_mw, decrement) == Max(0, bucket_mw - decrement)

\* the FossilClosure entry of a concrete plant
ClosureEntry(closing, extra_dummy, remaining, date, year) ==
    [date |-> date, year |-> year,
     site |-> IF closing.municipality # <<>> THEN closing.municipality ELSE Descriptor(closing),
     name |-> Descriptor(closing),
     event_type |-> "fossil_closure",
     fuel |-> closing.fuel_bucket,
     mw_removed |-> Round1(closing.capacity_mw),
     fossil_capacity_closed_mw |-> Round1(closing.capacity_mw + extra_dummy),
     dummy_capacity_closed_mw |-> IF extra_dummy # 0 THEN Round1(extra_dummy) ELSE 0,
     running_fossil_mw |-> Round1(remaining),
     municipality |-> closing.municipality]

\* the loop over closings: acc = [remaining, breakdown, entries]
RECURSIVE ApplyClosings(_, _, _, _, _, _, _)
ApplyClosings(closings, idx, dummy_to_allocate, fossil_floor_mw, date, year, acc) ==
    IF idx > Len(closings) THEN acc
    ELSE LET closing == closings[idx]
             extra_dummy == IF dummy_to_allocate > 0 /\ idx = Len(closings)
                            THEN dummy_to_allocate ELSE 0
             decrement == closing.capacity_mw + extra_dummy
             remaining == Max(acc.remaining - decrement, fossil_floor_mw)
             breakdown == IF closing.fuel_bucket \in DOMAIN acc.breakdown
                          THEN [acc.breakdown EXCEPT ![closing.fuel_bucket] =
                                    BucketAfter(@, decrement)]
                          ELSE acc.breakdown
         IN  ApplyClosings(closings, idx + 1, dummy_to_allocate, fossil_floor_mw, date, year,
                 [remaining |-> remaining, breakdown |-> breakdown,
                  entries |-> Append(acc.entries,
                                     ClosureEntry(closing, extra_dummy, remaining, date, year))])

\* the synthetic entry of a residual-only closure
ResidualEntry(dummy_to_allocate, remaining, date, year) ==
    [date |-> date, year |-> year,
     site |-> TXT_RESIDUAL, name |-> TXT_RESIDUAL,
     event_type |-> "fossil_closure", fuel |-> "fossil",
     mw_removed |-> 0,
     fossil_capacity_closed_mw |-> Round1(dummy_to_allocate),
     dummy_capacity_closed_mw |-> Round1(dummy_to_allocate),
     running_fossil_mw |-> Round1(remaining),
     municipality |-> <<>>,
     residual_only |-> TRUE]

\* the breakdown after a residual-only closure: every bucket loses its
\* share of dummy_to_allocate
ProportionalBreakdown(breakdown, dummy_to_allocate) ==
    LET total_available == SumBreakdown(breakdown)
    IN  IF total_available > 0
        THEN [fuel \in DOMAIN breakdown |->
                 BucketAfter(breakdown[fuel],
                             MulDiv(dummy_to_allocate, breakdown[fuel], total_available))]
        ELSE breakdown

\* closures that add a synthetic entry for the residual behind the entries
\* of the closing plants
ApplyEventClosures_AlsoSynthetic(closings, residual_closure_mw, fossil_before_closure, fossil_floor_mw, breakdown, date, year) ==
    LET acc0 == [remaining |-> fossil_before_closure, breakdown |-> breakdown,
                 entries |-> <<>>]
        acc == ApplyClosings(closings, 1, residual_closure_mw, fossil_floor_mw, date, year, acc0)
    IN  IF residual_closure_mw > 0
        THEN [acc EXCEPT !.entries =
                  Append(@, ResidualEntry(residual_closure_mw, acc.remaining, date, year))]
        ELSE acc

\* lines 586-643: [remaining, breakdown, entries] of a build event
ApplyEventClosures(closings, residual_closure_mw, fossil_before_closure, fossil_floor_mw, breakdown, date, year) ==
    LET acc0 == [remaining |-> fossil_before_closure, breakdown |-> breakdown,
                 entries |-> <<>>]
    IN  IF closings # <<>>
        THEN ApplyClosings(closings, 1, residual_closure_mw, fossil_floor_mw, date, year, acc0)
        ELSE IF residual_closure_mw > 0
        THEN LET remaining == Max(fossil_before_closure - residual_closure_mw, fossil_floor_mw)
             IN  [remaining |-> remaining,
                  breakdown |-> ProportionalBreakdown(breakdown, residual_closure_mw),
                  entries |-> <<ResidualEntry(residual_closure_mw, remaining, date, year)>>]
        ELSE acc0

\* running fossil with the floor added on top of what remains
RunningFossilAfter_AddFloor(remaining, fossil_floor_mw) == remaining + fossil_floor_mw

\* running_fossil after the event
RunningFossilAfter(remaining, fossil_floor_mw) == Max(remaining, fossil_floor_mw)

\* existing_site_pattern
EXISTING_SITE_PATTERN == <<TRUE, TRUE, TRUE, FALSE>>

\* a choice that takes the first baseline site listed, whatever the counters
choose_existing_municipality_FirstListed(baseline_sites, counter) ==
    IF baseline_sites = <<>> THEN <<>> ELSE baseline_sites[1]

\* choose_existing_municipality: the baseline site with the least
\* (counter, key); <<>> stands for None
choose_existing_municipality(baseline_sites, counter) ==
    IF baseline_sites = <<>> THEN <<>>
    ELSE LET Before(a, b) ==
                 \/ CounterGet(counter, a) < CounterGet(counter, b)
                 \/ CounterGet(counter, a) = CounterGet(counter, b) /\ TextLess(a, b)
             sites == {baseline_sites[i] : i \in DOMAIN baseline_sites}
         IN  CHOOSE a \in sites : \A b \in sites \ {a} : Before(a, b)

\* an allocation that takes the planned sites from the end of the list
AllocateSite_PlannedFromEnd(ps, planned, build_count, post_index, counter, baseline_sites, nuclear_sites, closings) ==
    LET is_planned == build_count < Len(planned)
        prefer_existing ==
            ~is_planned /\ EXISTING_SITE_PATTERN[(post_index % Len(EXISTING_SITE_PATTERN)) + 1]
        chosen == IF prefer_existing
                  THEN choose_existing_municipality(baseline_sites, counter)
                  ELSE <<>>
        \* the closing-plant rule
        closing_municipality ==
            LET own == Strip(closings[1].municipality)
                mapped == Strip(MunicipalityMapGet(ps, Strip(Descriptor(closings[1]))))
            IN  IF own = <<>> /\ mapped # <<>> THEN mapped ELSE own
        \* the round-robin rule
        site_choice == nuclear_sites[(build_count % Len(nuclear_sites)) + 1]
        mapped_choice == Strip(MunicipalityMapGet(ps, site_choice))
        first ==
            IF is_planned
            THEN [label |-> Strip(planned[Len(planned) - build_count].display),
                  municipality |-> Strip(planned[Len(planned) - build_count].municipality)]
            ELSE IF chosen # <<>>
            THEN [label |-> chosen, municipality |-> chosen]
            ELSE IF closings # <<>>
            THEN [label |-> IF closing_municipality # <<>> THEN closing_municipality
                            ELSE Strip(Descriptor(closings[1])),
                  municipality |-> closing_municipality]
            ELSE [label |-> IF mapped_choice # <<>> THEN mapped_choice ELSE Strip(site_choice),
                  municipality |-> mapped_choice]
        site_label ==
            IF first.label # <<>> THEN first.label
            ELSE IF first.municipality # <<>> THEN first.municipality
            ELSE TXT_NEW_COMPLEX
        site_municipality ==
            IF first.municipality # <<>> THEN first.municipality
            ELSE Strip(MunicipalityMapGet(ps, site_label))
        counter_key == IF site_municipality # <<>> THEN site_municipality ELSE site_label
        current_units == CounterGet(counter, counter_key) + 1
    IN  [site_label |-> site_label,
         site_municipality |-> site_municipality,
         post_index |-> IF is_planned THEN post_index ELSE post_index + 1,
         counter |-> CounterSet(counter, counter_key, current_units),
         unit_name |-> TXT_UNIT \o IntText(current_units)]

\* lines 522-579: the site, municipality and unit number of the new unit
AllocateSite(ps, planned, build_count, post_index, counter, baseline_sites, nuclear_sites, closings) ==
    LET is_planned == build_count < Len(planned)
        prefer_existing ==
            ~is_planned /\ EXISTING_SITE_PATTERN[(post_index % Len(EXISTING_SITE_PATTERN)) + 1]
        chosen == IF prefer_existing
                  THEN choose_existing_municipality(baseline_sites, counter)
                  ELSE <<>>
        \* the closing-plant rule
        closing_municipality ==
            LET own == Strip(closings[1].municipality)
                mapped == Strip(MunicipalityMapGet(ps, Strip(Descriptor(closings[1]))))
            IN  IF own = <<>> /\ mapped # <<>> THEN mapped ELSE own
        \* the round-robin rule
        site_choice == nuclear_sites[(build_count % Len(nuclear_sites)) + 1]
        mapped_choice == Strip(MunicipalityMapGet(ps, site_choice))
        first ==
            IF is_planned
            THEN [label |-> Strip(planned[build_count + 1].display),
                  municipality |-> Strip(planned[build_count + 1].municipality)]
            ELSE IF chosen # <<>>
            THEN [label |-> chosen, municipality |-> chosen]
            ELSE IF closings # <<>>
            THEN [label |-> IF closing_municipality # <<>> THEN closing_municipality
                            ELSE Strip(Descriptor(closings[1])),
                  municipality |-> closing_municipality]
            ELSE [label |-> IF mapped_choice # <<>> THEN mapped_choice ELSE Strip(site_choice),
                  municipality |-> mapped_choice]
        site_label ==
            IF first.label # <<>> THEN first.label
            ELSE IF first.municipality # <<>> THEN first.municipality
            ELSE TXT_NEW_COMPLEX
        site_municipality ==
            IF first.municipality # <<>> THEN first.municipality
            ELSE Strip(MunicipalityMapGet(ps, site_label))
        counter_key == IF site_municipality # <<>> THEN site_municipality ELSE site_label
        current_units == CounterGet(counter, counter_key) + 1
    IN  [site_label |-> site_label,
         site_municipality |-> site_municipality,
         post_index |-> IF is_planned THEN post_index ELSE post_index + 1,
         counter |-> CounterSet(counter, counter_key, current_units),
         unit_name |-> TXT_UNIT \o IntText(current_units)]

\* MW (in capacity steps) running for a year, in energy steps
EnergySteps(capacity) == MulDiv(capacity, HOURS_PER_YEAR, (MW * 1000000) \div TWh)

\* round(x, 2) for x >= 0, ties to even
Round2(x) ==
    LET q == x \div Hundredth
        r == x % Hundredth
    IN  IF 2 * r > Hundredth \/ (2 * r = Hundredth /\ q % 2 = 1)
        THEN Hundredth * (q + 1)
        ELSE Hundredth * q

\* the NuclearBuild event
NuclearBuildEvent(date, year, site, capacity_added, nuclear_mw, fossil_mw, other_capacity, entries, fossil_closed, residual_closure_mw) ==
    [date |-> date, year |-> year,
     site |-> site.site_label,
     name |-> site.site_label \o <<" ">> \o site.unit_name,
     event_type |-> "nuclear_build",
     mw_added |-> Round1(capacity_added),
     running_nuclear_mw |-> Round1(nuclear_mw),
     running_fossil_mw |-> Round1(fossil_mw),
     running_total_mw |-> Round1(nuclear_mw + fossil_mw + other_capacity),
     fossil_sites_closed |-> [i \in DOMAIN entries |-> entries[i].name],
     fossil_capacity_closed_mw |-> Round1(fossil_closed + residual_closure_mw),
     dummy_fossil_capacity_closed_mw |-> Round1(residual_closure_mw),
     annual_generation_capacity_twh |->
         Round2(EnergySteps(nuclear_mw + fossil_mw + other_capacity)),
     municipality |-> site.site_municipality]

\* the row appended to timeseries_rows at the end of a year
TimeseriesRow(year, nuclear_mw, fossil_mw, breakdown, capacity) ==
    LET last_year == capacity[CHOOSE i \in DOMAIN capacity :
                                 \A j \in DOMAIN capacity : capacity[j].year <= capacity[i].year].year
        at == {i \in DOMAIN capacity : capacity[i].year = Min(year, last_year)}
    IN  [year |-> year,
         nuclear_mw |-> Round1(nuclear_mw),
         fossil_mw |-> Round1(fossil_mw),
         other_mw |-> capacity[CHOOSE i \in at : \A j \in at : i <= j].other_mw,
         mw |-> [fuel \in FOSSIL_FUELS |->
                    Round1(IF fuel \in DOMAIN breakdown THEN breakdown[fuel] ELSE 0)]]

\* variant of WithTotal: the total column leaves other_mw out
WithTotal_NoOther(row) ==
    [year |-> row.year, nuclear_mw |-> row.nuclear_mw, fossil_mw |-> row.fossil_mw,
     other_mw |-> row.other_mw, mw |-> row.mw,
     total_mw |-> row.nuclear_mw + row.fossil_mw]

\* timeseries_df["total_mw"]
WithTotal(row) ==
    [year |-> row.year, nuclear_mw |-> row.nuclear_mw, fossil_mw |-> row.fossil_mw,
     other_mw |-> row.other_mw, mw |-> row.mw,
     total_mw |-> row.nuclear_mw + row.fossil_mw + row.other_mw]

(***************************************************************************)
(* EmissionsProjector: compute_emissions_timeseries                        *)
(***************************************************************************)
\* a row of the generation frame has the columns coal, gas, oil, nuclear,
\* hydro, solar, wind, bioenergy, other_renewables; a NaN cell is Missing
Missing == -1
FOSSIL_GENERATION_COLUMNS == <<"coal", "gas", "oil">>
RENEWABLE_GENERATION_COLUMNS == <<"hydro", "solar", "wind", "bioenergy", "other_renewables">>
GENERATION_COLUMNS ==
    {"coal", "gas", "nuclear", "hydro", "solar", "oil", "wind", "bioenergy", "other_renewables"}

\* EMISSIONS_FACTORS_TON_PER_MWH, in hundredths
EMISSIONS_FACTOR_PCT(column) ==
    CASE column = "coal" -> 95
      [] column = "gas" -> 45
      [] column = "oil" -> 78
      [] column = "nuclear" -> 1
      [] OTHER -> 0

\* get_value / base_value: the cell, 0.0 for NaN
GetValue(row, column) == IF row[column] = Missing THEN 0 ELSE row[column]

\* sum of get_value over a list of columns
RECURSIVE SumColumns(_, _)
SumColumns(row, columns) ==
    IF columns = <<>> THEN 0
    ELSE GetValue(row, Head(columns)) + SumColumns(row, Tail(columns))

\* sum over the columns of values[column] * factor(column)
Co2Of(values) ==
    LET term(column) == MulDiv(values[column], EMISSIONS_FACTOR_PCT(column), 100)
    IN  term("coal") + term("gas") + term("oil") + term("nuclear") + term("hydro")
        + term("solar") + term("wind") + term("bioenergy") + term("other_renewables")

\* the record appended to records_actual
ActualRecord(year, data) ==
    LET fossil_twh == SumColumns(data, FOSSIL_GENERATION_COLUMNS)
        nuclear_actual_twh == GetValue(data, "nuclear")
        renewables_twh == SumColumns(data, RENEWABLE_GENERATION_COLUMNS)
        total_twh == fossil_twh + nuclear_actual_twh + renewables_twh
    IN  [year |-> year,
         fossil_twh |-> Round2(fossil_twh),
         nuclear_twh |-> Round2(nuclear_actual_twh),
         renewables_twh |-> Round2(renewables_twh),
         total_twh |-> Round2(total_twh),
         co2_mt |-> Round2(Co2Of([column \in GENERATION_COLUMNS |-> GetValue(data, column)])),
         clean_twh |-> Round2(nuclear_actual_twh + renewables_twh)]

\* potential_extra_nuclear_twh
PotentialExtraNuclear(year, cf_nuclear_mw, actual_nuclear_mw) ==
    IF year <= START_YEAR THEN 0
    ELSE MulDiv(Max(cf_nuclear_mw - actual_nuclear_mw, 0),
                HOURS_PER_YEAR * NUCLEAR_CAPACITY_FACTOR_PCT,
                100 * ((MW * 1000000) \div TWh))

\* variant of CfNuclear: the output of the year before is not held
CfNuclear_NoHold(prev_cf_nuclear, baseline_nuclear_twh, potential_extra_nuclear_twh) ==
    baseline_nuclear_twh + potential_extra_nuclear_twh

\* cf_nuclear_twh
CfNuclear(prev_cf_nuclear, baseline_nuclear_twh, potential_extra_nuclear_twh) ==
    Max(prev_cf_nuclear, baseline_nuclear_twh + potential_extra_nuclear_twh)

\* variant of CfRenewables: renewables are never frozen
CfRenewables_NoFreeze(year, renewables_twh, frozen_renewables_total) == renewables_twh

\* cf_renewables_twh
CfRenewables(year, renewables_twh, frozen_renewables_total) ==
    IF year < RENEWABLE_FREEZE_YEAR THEN renewables_twh ELSE frozen_renewables_total

\* variant of RequiredFossil: no fossil generation fills the gap
RequiredFossil_NoFill(required_total, potential_without_fossil) == 0

\* required_fossil_twh
RequiredFossil(required_total, potential_without_fossil) ==
    Max(required_total - potential_without_fossil, 0)

\* a capacity ratio cf / actual, kept as the pair <<cf, actual>>; 0.0 when
\* the actual capacity is not positive
Ratio(cf_cap, actual_cap) == IF actual_cap > 0 THEN <<cf_cap, actual_cap>> ELSE <<0, 1>>

\* a split that scales by the capacity ratios and does not renormalise
FossilSplit_NoRenormalise(data, cf_fossil_twh, actual_bd, cf_bd) ==
    [scaled |-> [column \in {"coal", "gas", "oil"} |->
                    CASE column = "coal" ->
                             MulDiv(GetValue(data, column),
                                    Ratio(cf_bd["hard_coal"] + cf_bd["lignite"],
                                          actual_bd["hard_coal"] + actual_bd["lignite"])[1],
                                    Ratio(cf_bd["hard_coal"] + cf_bd["lignite"],
                                          actual_bd["hard_coal"] + actual_bd["lignite"])[2])
                      [] column = "gas" ->
                             MulDiv(GetValue(data, column),
                                    Ratio(cf_bd["natural_gas"], actual_bd["natural_gas"])[1],
                                    Ratio(cf_bd["natural_gas"], actual_bd["natural_gas"])[2])
                      [] column = "oil" ->
                             MulDiv(GetValue(data, column),
                                    Ratio(cf_bd["oil"], actual_bd["oil"])[1],
                                    Ratio(cf_bd["oil"], actual_bd["oil"])[2])],
     cf_fossil_twh |-> cf_fossil_twh,
     divisors |-> {1}]

\* lines 956-1000: the split of cf_fossil_twh over coal, gas and oil;
\* [scaled: column -> TWh, cf_fossil_twh, divisors: the denominators of the
\* divisions carried out]
FossilSplit(data, cf_fossil_twh, actual_bd, cf_bd) ==
    LET coal_actual_cap == actual_bd["hard_coal"] + actual_bd["lignite"]
        coal_cf_cap == cf_bd["hard_coal"] + cf_bd["lignite"]
        ratio == [column \in {"coal", "gas", "oil"} |->
                    CASE column = "coal" -> Ratio(coal_cf_cap, coal_actual_cap)
                      [] column = "gas" -> Ratio(cf_bd["natural_gas"], actual_bd["natural_gas"])
                      [] column = "oil" -> Ratio(cf_bd["oil"], actual_bd["oil"])]
        scaled == [column \in {"coal", "gas", "oil"} |->
                     MulDiv(GetValue(data, column), ratio[column][1], ratio[column][2])]
        scaled_total == scaled["coal"] + scaled["gas"] + scaled["oil"]
        cap_total_cf == coal_cf_cap + cf_bd["natural_gas"] + cf_bd["oil"]
        cap == [column \in {"coal", "gas", "oil"} |->
                  CASE column = "coal" -> coal_cf_cap
                    [] column = "gas" -> cf_bd["natural_gas"]
                    [] column = "oil" -> cf_bd["oil"]]
        zero == [column \in {"coal", "gas", "oil"} |-> 0]
        \* the denominators of the ratios that are computed
        ratio_divisors == {ratio[column][2] : column \in {"coal", "gas", "oil"}}
    IN  IF cf_fossil_twh > 0 /\ scaled_total > 0
        THEN [scaled |-> [column \in {"coal", "gas", "oil"} |->
                             MulDiv(scaled[column], cf_fossil_twh, scaled_total)],
              cf_fossil_twh |-> cf_fossil_twh,
              divisors |-> ratio_divisors \cup {scaled_total}]
        ELSE IF cf_fossil_twh > 0 /\ scaled_total <= 0
        THEN IF cap_total_cf > 0
             THEN [scaled |-> [column \in {"coal", "gas", "oil"} |->
                                  MulDiv(cf_fossil_twh, cap[column], cap_total_cf)],
                   cf_fossil_twh |-> cf_fossil_twh,
                   divisors |-> ratio_divisors \cup {cap_total_cf}]
             ELSE [scaled |-> zero, cf_fossil_twh |-> 0, divisors |-> ratio_divisors]
        ELSE [scaled |-> zero, cf_fossil_twh |-> 0, divisors |-> ratio_divisors]

\* the record appended to records_counterfactual, before the baseline copy
CounterfactualRecord(year, data, cf_nuclear_twh, cf_renewables_twh, freeze_row, actual_bd, cf_bd) ==
    LET total_twh == SumColumns(data, FOSSIL_GENERATION_COLUMNS) + GetValue(data, "nuclear")
                     + SumColumns(data, RENEWABLE_GENERATION_COLUMNS)
        potential_without_fossil == cf_nuclear_twh + cf_renewables_twh + 0
        required_fossil_twh == RequiredFossil(total_twh, potential_without_fossil)
        cf_total_twh == potential_without_fossil + required_fossil_twh
        split == FossilSplit(data, required_fossil_twh, actual_bd, cf_bd)
        values == [column \in GENERATION_COLUMNS |->
                      IF column = "nuclear" THEN cf_nuclear_twh
                      ELSE IF column \in {"coal", "gas", "oil"} THEN split.scaled[column]
                      ELSE IF year < RENEWABLE_FREEZE_YEAR THEN GetValue(data, column)
                      ELSE GetValue(freeze_row, column)]
    IN  [year |-> year,
         fossil_twh |-> Round2(split.cf_fossil_twh),
         nuclear_twh |-> Round2(cf_nuclear_twh),
         renewables_twh |-> Round2(cf_renewables_twh),
         total_twh |-> Round2(cf_total_twh),
         co2_mt |-> Round2(Co2Of(values)),
         clean_twh |-> Round2(cf_nuclear_twh + cf_renewables_twh)]

\* variant of FinalCounterfactualRecord: the baseline record is not copied
FinalCounterfactualRecord_NoCopy(year, actual_record, cf_record) == cf_record

\* lines 1032-1033: at or before START_YEAR the record is the actual one
FinalCounterfactualRecord(year, actual_record, cf_record) ==
    IF year <= START_YEAR THEN actual_record ELSE cf_record

(***************************************************************************)
(* build_historical_events                                                 *)
(***************************************************************************)
\* a string as a sort key: the ranks of its characters, then 0
TextKey(s) == [i \in 1..(Len(s) + 1) |-> IF i <= Len(s) THEN CharRank(s[i]) ELSE 0]

\* k1 <= k2 for tuples written as sequences of integers
RECURSIVE SeqLeq(_, _)
SeqLeq(k1, k2) ==
    IF k1 = <<>> THEN TRUE
    ELSE IF k2 = <<>> THEN FALSE
    ELSE IF Head(k1) = Head(k2) THEN SeqLeq(Tail(k1), Tail(k2))
    ELSE Head(k1) < Head(k2)

\* [key, item] put into a sorted sequence, after every element whose key is
\* not greater
RECURSIVE InsertByKey(_, _)
InsertByKey(pair, sorted) ==
    IF sorted = <<>> THEN <<pair>>
    ELSE IF SeqLeq(Head(sorted).key, pair.key)
         THEN <<Head(sorted)>> \o InsertByKey(pair, Tail(sorted))
         ELSE <<pair>> \o sorted

RECURSIVE SortPairsFrom(_, _)
SortPairsFrom(pairs, sorted) ==
    IF pairs = <<>> THEN sorted
    ELSE SortPairsFrom(Tail(pairs), InsertByKey(Head(pairs), sorted))

\* the items of a sequence of [key, item], in ascending key order (stable)
SortByKey(pairs) ==
    LET sorted == SortPairsFrom(pairs, <<>>)
    IN  [i \in DOMAIN sorted |-> sorted[i].item]

\* a year column as a sort key: a missing year sorts last
YearKey(y) == IF y = None THEN NO_YEAR_SORT_KEY ELSE y

\* the municipality cell when it is a string, else ""
CellText(cell) == IF cell = NaN THEN <<>> ELSE cell

\* the fossil builds of the range, sorted by commission_year, site, name
HistoricalBuilds(builds, start_year, end_year) ==
    LET kept == BuildsInRange(builds, start_year, end_year)
    IN  SortByKey([i \in DOMAIN kept |->
            [key |-> <<kept[i].commission_year>> \o TextKey(kept[i].site)
                         \o TextKey(kept[i].name),
             item |-> kept[i]]])

\* the registry rows of `fuels` that close in the range, sorted by
\* closure_year, commission_year, name
HistoricalClosures(ps, fuels, start_year, end_year) ==
    LET kept == SelectSeq(ps, LAMBDA p : /\ p.fuel_bucket \in fuels
                                         /\ p.closure_year # None
                                         /\ p.closure_year >= start_year
                                         /\ p.closure_year <= end_year)
    IN  SortByKey([i \in DOMAIN kept |->
            [key |-> <<kept[i].closure_year, YearKey(kept[i].commission_year)>>
                         \o TextKey(kept[i].name),
             item |-> kept[i]]])

FossilBuildEvent(b, ps) ==
    LET municipality == CellText(b.municipality)
    IN  [date |-> <<b.commission_year, 7, 1>>, year |-> b.commission_year,
         site |-> IF municipality # <<>> THEN municipality ELSE b.site,
         name |-> b.name,
         event_type |-> "fossil_build",
         fuel |-> b.type,
         mw_added |-> Round1(b.capacity_mw),
         running_fossil_mw |-> Round1(CapacityRow(ps, b.commission_year).fossil_mw),
         municipality |-> municipality]

HistoricalFossilClosureEvent(p, ps) ==
    LET municipality == CellText(p.municipality)
    IN  [date |-> <<p.closure_year, 11, 1>>, year |-> p.closure_year,
         site |-> IF municipality # <<>> THEN municipality ELSE p.name,
         name |-> p.name,
         event_type |-> "fossil_closure",
         fuel |-> p.fuel_bucket,
         mw_removed |-> Round1(p.capacity_mw),
         running_fossil_mw |-> Round1(CapacityRow(ps, p.closure_year).fossil_mw),
         municipality |-> municipality]

NuclearClosureEvent(p, ps) ==
    LET municipality == CellText(p.municipality)
    IN  [date |-> <<p.closure_year, 11, 15>>, year |-> p.closure_year,
         site |-> IF municipality # <<>> THEN municipality ELSE p.name,
         name |-> p.name,
         event_type |-> "nuclear_closure",
         fuel |-> "nuclear",
         mw_removed |-> Round1(p.capacity_mw),
         running_nuclear_mw |->
             Round1(Max(CapacityRow(ps, p.closure_year).nuclear_mw - p.capacity_mw, 0)),
         municipality |-> municipality]

\* the sort key of the final sort: (year, date, name)
EventKey(e) == <<e.year>> \o e.date \o TextKey(e.name)

\* build_historical_events: the three groups of events, then the sort
build_historical_events(builds, ps, start_year, end_year) ==
    LET bs == HistoricalBuilds(builds, start_year, end_year)
        cs == HistoricalClosures(ps, FOSSIL_FUELS, start_year, end_year)
        ns == HistoricalClosures(ps, {"nuclear"}, start_year, end_year)
        unsorted == [i \in DOMAIN bs |-> FossilBuildEvent(bs[i], ps)]
                    \o [i \in DOMAIN cs |-> HistoricalFossilClosureEvent(cs[i], ps)]
                    \o [i \in DOMAIN ns |-> NuclearClosureEvent(ns[i], ps)]
    IN  SortByKey([i \in DOMAIN unsorted |->
            [key |-> EventKey(unsorted[i]), item |-> unsorted[i]]])

(***************************************************************************)
(* Inputs: the plant registry, the fossil-build list, the planned sites    *)
(***************************************************************************)
PlantTemplates ==
    << [name |-> <<"H","y","d">>, municipality |-> NaN, fuel_bucket |-> "other",
        technology |-> <<"h","y">>, capacity_mw |-> 100 * MW + 1,
        commission_year |-> None, closure_year |-> None],
       [name |-> <<"E","r","d">>, municipality |-> <<"E","r","d">>, fuel_bucket |-> "natural_gas",
        technology |-> <<"s","t">>, capacity_mw |-> 1500 * MW,
        commission_year |-> 1985, closure_year |-> None],
       [name |-> <<"H","K","W"," ","N">>, municipality |-> <<"U","l","m">>, fuel_bucket |-> "oil",
        technology |-> <<"s","t">>, capacity_mw |-> 150 * MW,
        commission_year |-> None, closure_year |-> 1990],
       [name |-> <<"R","u","h","r">>, municipality |-> <<"U","l","m">>, fuel_bucket |-> "hard_coal",
        technology |-> <<"s","t">>, capacity_mw |-> 2000 * MW + 3,
        commission_year |-> 1980, closure_year |-> None],
       [name |-> <<"B","i","b">>, municipality |-> <<"B","i","b">>, fuel_bucket |-> "nuclear",
        technology |-> <<"p","w","r">>, capacity_mw |-> 1300 * MW,
        commission_year |-> 1975, closure_year |-> 1991],
       [name |-> <<"G","a","s"," ","N">>, municipality |-> NaN, fuel_bucket |-> "natural_gas",
        technology |-> <<"C","H","P">>, capacity_mw |-> 300 * MW + 2,
        commission_year |-> 1991, closure_year |-> None],
       [name |-> <<"B","o","x">>, municipality |-> <<"B","o","x">>, fuel_bucket |-> "lignite",
        technology |-> <<"s","t">>, capacity_mw |-> 705 * MW,
        commission_year |-> 1975, closure_year |-> None],
       [name |-> <<"A","l","t">>, municipality |-> NaN, fuel_bucket |-> "lignite",
        technology |-> <<"s","t">>, capacity_mw |-> 400 * MW,
        commission_year |-> 1970, closure_year |-> None],
       [name |-> <<"I","s","a">>, municipality |-> <<"I","s","a">>, fuel_bucket |-> "nuclear",
        technology |-> <<"p","w","r">>, capacity_mw |-> 1400 * MW + 2,
        commission_year |-> 1990, closure_year |-> None],
       [name |-> <<"G","u","n">>, municipality |-> <<"A","u","e">>, fuel_bucket |-> "nuclear",
        technology |-> <<"b","w","r">>, capacity_mw |-> 900 * MW,
        commission_year |-> 1970, closure_year |-> None] >>

\* the registries tried: NumPlants rows, each a template, in template order
Registries ==
    { [i \in 1..NumPlants |-> PlantTemplates[idx[i]]] :
        idx \in { f \in [1..NumPlants -> DOMAIN PlantTemplates] :
                    \A i \in 1..(NumPlants - 1) : f[i] <= f[i + 1] } }

BuildTemplates ==
    { [commission_year |-> 1989, capacity_mw |-> 500 * MW, type |-> <<"C","o","a","l">>,
       name |-> <<"N","e","u">>, site |-> <<"N","e","u">>, municipality |-> NaN],
      [commission_year |-> 1991, capacity_mw |-> 3000 * MW + 1, type |-> <<"G","a","s"," ">>,
       name |-> <<"G","u","D">>, site |-> <<"O","s","t">>, municipality |-> <<"U","l","m">>] }

PlannedTemplates ==
    << [site |-> <<"H","a","m">>, display |-> <<"H","a","m"," ","(","K","o","n","v","o","i",")">>, municipality |-> <<"H","a","m">>],
       [site |-> <<"L","i","n">>, display |-> <<"L","i","n"," ","(","K","o","n","v","o","i",")">>, municipality |-> <<"B","i","b">>] >>

\* the fossil-build lists and the planned-site lists tried: no planned site,
\* both, or the first listed twice, by its name and by its display name: a
\* line that contains "konvoi" is displayed as it is (line 170) and, matching
\* no plant, is its own municipality (line 168)
BuildLists == {<<>>} \cup {<<b>> : b \in BuildTemplates}

PlannedLists ==
    {<<>>, PlannedTemplates,
     <<PlannedTemplates[1],
       [site |-> PlannedTemplates[1].display, display |-> PlannedTemplates[1].display,
        municipality |-> PlannedTemplates[1].display]>>}

(***************************************************************************)
(* State                                                                   *)
(***************************************************************************)
VARIABLES
    plants,                         \* the registry (load_plants)
    fossil_builds,                  \* the fossil-build list
    planned_konvois,                \* load_planned_konvois
    actual_capacity,                \* build_dataset: actual capacity series
    actual_breakdown,               \* build_dataset: actual fossil breakdown
    pc,                             \* "start", "loop", "done" or "error"
    year,                           \* the year of the loop
    unit_index,                     \* the unit of the inner loop
    running_nuclear,
    running_fossil,
    running_fossil_breakdown,
    primary_pool,
    fallback_pool,
    closed_record_ids,
    baseline_existing_sites,
    existing_nuclear_sites,
    site_unit_counter,
    post_planned_allocation_index,
    nuclear_build_count,
    events,
    timeseries_rows,
    timeseries_df,                  \* the returned frame, <<>> until returned
    build_log,                      \* history: one entry per build event
    gen_first_year,                 \* the year of the first generation row
    gen_baseline_row,               \* the generation row of START_YEAR
    gen_freeze_row,                 \* the generation row of RENEWABLE_FREEZE_YEAR
    base_nuclear_mw,                \* nuclear capacity of the registry at START_YEAR
    em_pc,                          \* "idle", "run" or "done"
    em_year,                        \* the year of the next generation row
    prev_cf_nuclear_twh,
    last_actual,                    \* records_actual[-1], <<>> when empty
    last_counterfactual,            \* records_counterfactual[-1], <<>> when empty
    em_locals,                      \* the locals of the last pass of the loop
    freeze_cf_renewables,           \* history: renewables_twh of the counterfactual
                                    \* record of RENEWABLE_FREEZE_YEAR, Missing before
    sel_pc,                         \* "idle", "start", "ready" or "called"
    sel_call                        \* the last call of pick_fossil_closures: its
                                    \* arguments and what it returned, <<>> before

inputs == <<plants, fossil_builds, planned_konvois, actual_capacity, actual_breakdown>>

pools == <<primary_pool, fallback_pool, baseline_existing_sites, existing_nuclear_sites>>

simvars == <<pc, year, unit_index, running_nuclear, running_fossil,
             running_fossil_breakdown, closed_record_ids, site_unit_counter,
             post_planned_allocation_index, nuclear_build_count, events,
             timeseries_rows, timeseries_df, build_log>>

emvars == <<gen_first_year, gen_baseline_row, gen_freeze_row, base_nuclear_mw, em_pc, em_year,
            prev_cf_nuclear_twh, last_actual, last_counterfactual, em_locals,
            freeze_cf_renewables>>

selvars == <<sel_pc, sel_call>>

vars == <<inputs, pools, simvars, emvars, selvars>>

\* the projector is not running
\* the selector is not called on its own
SelectorIdle ==
    /\ sel_pc = "idle"
    /\ sel_call = <<>>

EmissionsIdle ==
    /\ gen_first_year = START_YEAR
    /\ gen_baseline_row = <<>>
    /\ gen_freeze_row = <<>>
    /\ base_nuclear_mw = 0
    /\ em_pc = "idle"
    /\ em_year = START_YEAR
    /\ prev_cf_nuclear_twh = 0
    /\ last_actual = <<>>
    /\ last_counterfactual = <<>>
    /\ em_locals = <<>>
    /\ freeze_cf_renewables = Missing

\* build_dataset up to the call of build_counterfactual_events
Init ==
    /\ plants \in Registries
    /\ fossil_builds \in BuildLists
    /\ planned_konvois \in PlannedLists
    /\ actual_capacity =
           apply_fossil_builds_to_capacity(
               compute_capacity_by_year(plants, START_YEAR, END_YEAR),
               fossil_builds, START_YEAR, END_YEAR)
    /\ actual_breakdown =
           apply_fossil_builds_to_breakdown(
               compute_fossil_breakdown_by_year(plants, START_YEAR, END_YEAR),
               fossil_builds, START_YEAR, END_YEAR)
    /\ pc = "start"
    /\ year = START_YEAR
    /\ unit_index = 0
    /\ running_nuclear = 0
    /\ running_fossil = 0
    /\ running_fossil_breakdown = [fuel \in FOSSIL_FUELS |-> 0]
    /\ primary_pool = <<>>
    /\ fallback_pool = <<>>
    /\ closed_record_ids = {}
    /\ baseline_existing_sites = <<>>
    /\ existing_nuclear_sites = <<>>
    /\ site_unit_counter = <<>>
    /\ post_planned_allocation_index = 0
    /\ nuclear_build_count = 0
    /\ events = <<>>
    /\ timeseries_rows = <<>>
    /\ timeseries_df = <<>>
    /\ build_log = <<>>
    /\ EmissionsIdle
    /\ SelectorIdle

(***************************************************************************)
(* build_counterfactual_events                                             *)
(***************************************************************************)
\* a state before the year loop whose nuclear capacity is that of END_YEAR
SetupState_NuclearOfEndYear ==
    [running_nuclear |-> CapacityRow(plants, END_YEAR).nuclear_mw,
     running_fossil |-> CapacityRow(plants, START_YEAR).fossil_mw,
     running_fossil_breakdown |-> BreakdownRow(plants, START_YEAR).mw,
     primary_pool |-> PrimaryPool(plants),
     fallback_pool |-> FallbackPool(plants),
     existing_nuclear_sites |-> ExistingNuclearSites(plants),
     baseline_existing_sites |-> BaselineExistingSites(plants),
     site_unit_counter |->
         InitialSiteCounter(plants, build_municipality_baselines(plants), <<>>)]

\* lines 398-470: the state before the year loop
SetupState ==
    [running_nuclear |-> CapacityRow(plants, START_YEAR).nuclear_mw,
     running_fossil |-> CapacityRow(plants, START_YEAR).fossil_mw,
     running_fossil_breakdown |-> BreakdownRow(plants, START_YEAR).mw,
     primary_pool |-> PrimaryPool(plants),
     fallback_pool |-> FallbackPool(plants),
     existing_nuclear_sites |-> ExistingNuclearSites(plants),
     baseline_existing_sites |-> BaselineExistingSites(plants),
     site_unit_counter |->
         InitialSiteCounter(plants, build_municipality_baselines(plants), <<>>)]

\* the call enters the year loop, unless build_municipality_baselines raises
\* on a missing municipality
Setup ==
    /\ pc = "start"
    /\ IF BaselinesRaise(plants)
       THEN /\ pc' = "error"
            /\ UNCHANGED <<running_nuclear, running_fossil, running_fossil_breakdown,
                           pools, site_unit_counter>>
       ELSE /\ pc' = "loop"
            /\ \E st \in {SetupState} :
                   /\ running_nuclear' = st.running_nuclear
                   /\ running_fossil' = st.running_fossil
                   /\ running_fossil_breakdown' = st.running_fossil_breakdown
                   /\ primary_pool' = st.primary_pool
                   /\ fallback_pool' = st.fallback_pool
                   /\ existing_nuclear_sites' = st.existing_nuclear_sites
                   /\ baseline_existing_sites' = st.baseline_existing_sites
                   /\ site_unit_counter' = st.site_unit_counter
    /\ UNCHANGED <<selvars, emvars, inputs, year, unit_index, closed_record_ids,
                   post_planned_allocation_index, nuclear_build_count, events,
                   timeseries_rows, timeseries_df, build_log>>

\* lines 487-495: closure_target_mw of the next unit
BuildTarget ==
    LET actual_row_year == ActualRowYear(actual_capacity, year)
        capacity_added ==
            NUCLEAR_CAPACITY_SEQUENCE[(nuclear_build_count % Len(NUCLEAR_CAPACITY_SEQUENCE)) + 1]
        fossil_floor_mw == FossilFloor(actual_row_year.total_mw, running_nuclear + capacity_added,
                                       actual_row_year.other_mw)
    IN  ClosureTarget(capacity_added, AllowedShutdown(running_fossil, fossil_floor_mw))

\* lines 487-667: the values computed by one pass of the unit loop, given
\* the closures left by the selector call and the rollback
BuildEventWith(sel) ==
    LET actual_row_year == ActualRowYear(actual_capacity, year)
        other_capacity == actual_row_year.other_mw
        actual_total_mw == actual_row_year.total_mw
        capacity_added ==
            NUCLEAR_CAPACITY_SEQUENCE[(nuclear_build_count % Len(NUCLEAR_CAPACITY_SEQUENCE)) + 1]
        fossil_before_closure == running_fossil
        nuclear_after == running_nuclear + capacity_added
        fossil_floor_mw == FossilFloor(actual_total_mw, nuclear_after, other_capacity)
        allowed_shutdown_mw == AllowedShutdown(fossil_before_closure, fossil_floor_mw)
        target0 == ClosureTarget(capacity_added, allowed_shutdown_mw)
        residual_closure_mw == ResidualClosure(sel.closure_target_mw, sel.fossil_closed)
        site == AllocateSite(plants, planned_konvois, nuclear_build_count,
                             post_planned_allocation_index, site_unit_counter,
                             baseline_existing_sites, existing_nuclear_sites,
                             sel.closings)
        date == EventDate(year, UnitsThisYear(year), unit_index)
        applied == ApplyEventClosures(sel.closings, residual_closure_mw,
                                      fossil_before_closure, fossil_floor_mw,
                                      running_fossil_breakdown, date, year)
        fossil_after == RunningFossilAfter(applied.remaining, fossil_floor_mw)
    IN  [running_nuclear |-> nuclear_after,
         running_fossil |-> fossil_after,
         running_fossil_breakdown |-> applied.breakdown,
         closed_record_ids |-> sel.closed_ids,
         site_unit_counter |-> site.counter,
         post_planned_allocation_index |-> site.post_index,
         new_events |-> applied.entries \o
             <<NuclearBuildEvent(date, year, site, capacity_added, nuclear_after,
                                 fossil_after, other_capacity, applied.entries,
                                 sel.fossil_closed, residual_closure_mw)>>,
         log |-> [year |-> year, unit_index |-> unit_index,
                  capacity_added |-> capacity_added,
                  fossil_before |-> fossil_before_closure,
                  fossil_floor_mw |-> fossil_floor_mw,
                  requested_mw |-> target0,
                  closure_target_mw |-> sel.closure_target_mw,
                  returned |-> sel.returned,
                  closings |-> sel.closings,
                  fossil_closed |-> sel.fossil_closed,
                  residual_closure_mw |-> residual_closure_mw,
                  rolled_back |-> sel.rolled_back,
                  reported |-> sel.reported,
                  closed_before |-> closed_record_ids,
                  build_count_before |-> nuclear_build_count,
                  allocation_index_before |-> post_planned_allocation_index,
                  counter_before |-> site_unit_counter,
                  breakdown_before |-> running_fossil_breakdown,
                  fossil_after |-> fossil_after]]

\* one pass of the unit loop with the selector of the program
BuildEvent ==
    BuildEventWith(SelectClosures(year, BuildTarget, running_fossil, primary_pool,
                                  fallback_pool, closed_record_ids))

\* one pass of the unit loop
BuildUnit ==
    /\ pc = "loop"
    /\ year <= END_YEAR
    /\ unit_index < UnitsThisYear(year)
    /\ \E event \in {BuildEvent} :
           /\ running_nuclear' = event.running_nuclear
           /\ running_fossil' = event.running_fossil
           /\ running_fossil_breakdown' = event.running_fossil_breakdown
           /\ closed_record_ids' = event.closed_record_ids
           /\ site_unit_counter' = event.site_unit_counter
           /\ post_planned_allocation_index' = event.post_planned_allocation_index
           /\ events' = events \o event.new_events
           /\ build_log' = Append(build_log, event.log)
    /\ nuclear_build_count' = nuclear_build_count + 1
    /\ unit_index' = unit_index + 1
    /\ UNCHANGED <<selvars, emvars, inputs, pools, pc, year, timeseries_rows, timeseries_df>>

\* lines 669-686: the yearly record, after the units of the year
AppendYear ==
    /\ pc = "loop"
    /\ year <= END_YEAR
    /\ unit_index >= UnitsThisYear(year)
    /\ timeseries_rows' = Append(timeseries_rows,
           TimeseriesRow(year, running_nuclear, running_fossil,
                         running_fossil_breakdown, actual_capacity))
    /\ year' = year + 1
    /\ unit_index' = 0
    /\ UNCHANGED <<selvars, emvars, inputs, pools, pc, running_nuclear, running_fossil,
                   running_fossil_breakdown, closed_record_ids, site_unit_counter,
                   post_planned_allocation_index, nuclear_build_count, events,
                   timeseries_df, build_log>>

\* lines 688-692: the frame with its total_mw column is returned
Return ==
    /\ pc = "loop"
    /\ year > END_YEAR
    /\ timeseries_df' = [i \in DOMAIN timeseries_rows |-> WithTotal(timeseries_rows[i])]
    /\ pc' = "done"
    /\ UNCHANGED <<selvars, emvars, inputs, pools, year, unit_index, running_nuclear, running_fossil,
                   running_fossil_breakdown, closed_record_ids, site_unit_counter,
                   post_planned_allocation_index, nuclear_build_count, events,
                   timeseries_rows, build_log>>

Next == Setup \/ BuildUnit \/ AppendYear \/ Return

Spec == Init /\ [][Next]_vars

(***************************************************************************)
(* The simulator with the rounding of the selector's float sum left open:  *)
(* the selector accepts a plant of capacity <= remaining_needed + 1e-6     *)
(* (line 375), so the capacities accepted can add up to the target plus    *)
(* the tolerance; total_closed and closure_target_mw + 1e-6 are then two   *)
(* float sums of the same real value, and the test at line 509 can find    *)
(* the first above the second by a rounding error.  Eps stands for the     *)
(* tolerance at the resolution of the model                                *)
(***************************************************************************)
\* what the selector may report for the next unit: its closings with their
\* total or, when two or more plants add up to the target plus the
\* tolerance and the cap at running_fossil does not bind, the same closings
\* with a total one step above
SelectorReports ==
    LET picked == IF BuildTarget > 0
                  THEN pick_fossil_closures(year, BuildTarget, running_fossil,
                                            primary_pool, fallback_pool, closed_record_ids)
                  ELSE [closings |-> <<>>, total_closed |-> 0,
                        closed_ids |-> closed_record_ids]
    IN  IF /\ Len(picked.closings) >= 2
           /\ picked.total_closed = BuildTarget + Eps
           /\ running_fossil > picked.total_closed
        THEN {picked, [picked EXCEPT !.total_closed = BuildTarget + Eps + 1]}
        ELSE {picked}

\* one pass of the unit loop for one of the reports
BuildUnitReported ==
    /\ pc = "loop"
    /\ year <= END_YEAR
    /\ unit_index < UnitsThisYear(year)
    /\ \E report \in SelectorReports :
         \E event \in {BuildEventWith(Rollback(report, BuildTarget))} :
           /\ running_nuclear' = event.running_nuclear
           /\ running_fossil' = event.running_fossil
           /\ running_fossil_breakdown' = event.running_fossil_breakdown
           /\ closed_record_ids' = event.closed_record_ids
           /\ site_unit_counter' = event.site_unit_counter
           /\ post_planned_allocation_index' = event.post_planned_allocation_index
           /\ events' = events \o event.new_events
           /\ build_log' = Append(build_log, event.log)
    /\ nuclear_build_count' = nuclear_build_count + 1
    /\ unit_index' = unit_index + 1
    /\ UNCHANGED <<selvars, emvars, inputs, pools, pc, year, timeseries_rows, timeseries_df>>

NextReported == Setup \/ BuildUnitReported \/ AppendYear \/ Return

\* the runs without fossil builds and planned sites
InitReported ==
    /\ Init
    /\ fossil_builds = <<>>
    /\ planned_konvois = <<>>

SpecReported == InitReported /\ [][NextReported]_vars

(***************************************************************************)
(* compute_emissions_timeseries as a state machine: one generation row per *)
(* step, in year order                                                     *)
(***************************************************************************)
\* rows of the generation frame: START_YEAR .. START_YEAR + GenerationYears - 1
GenerationYears == 11

GEN_END_YEAR == START_YEAR + GenerationYears - 1

GenerationRows ==
    { [coal |-> 150 * TWh, gas |-> 30 * TWh, oil |-> 5 * TWh + 5, nuclear |-> 140 * TWh,
       hydro |-> 20 * TWh, solar |-> 0, wind |-> 4, bioenergy |-> 2 * TWh,
       other_renewables |-> 0],
      [coal |-> 20 * TWh, gas |-> Missing, oil |-> 0, nuclear |-> 15 * TWh,
       hydro |-> 3 * TWh + 333, solar |-> 1 * TWh, wind |-> 30 * TWh,
       bioenergy |-> 5 * TWh, other_renewables |-> 500],
      [coal |-> 0, gas |-> 0, oil |-> 0, nuclear |-> 10 * TWh,
       hydro |-> 5 * TWh, solar |-> 0, wind |-> 0, bioenergy |-> 0,
       other_renewables |-> 0] }

ActualNuclearChoices == {0, 9000 * MW + 3}

\* [actual, cf]: the fossil breakdowns of one year in the two scenarios
BreakdownPairs ==
    LET bd(c, l, g, o) == [hard_coal |-> c, lignite |-> l, natural_gas |-> g, oil |-> o]
    IN  { [actual |-> bd(2000 * MW + 3, 700 * MW, 1500 * MW, 150 * MW),
           cf |-> bd(2000 * MW + 5, 700 * MW, 1500 * MW, 150 * MW)],
          [actual |-> bd(2000 * MW + 3, 700 * MW, 1500 * MW, 150 * MW),
           cf |-> bd(0, 0, 1210 * MW + 5, 0)],
          [actual |-> bd(0, 0, 0, 0),
           cf |-> bd(500 * MW, 0, 250 * MW, 0)],
          [actual |-> bd(2000 * MW + 3, 0, 1500 * MW, 0),
           cf |-> bd(0, 0, 0, 0)] }

\* capacity added by the first n units of the run
RECURSIVE BuiltCapacity(_)
BuiltCapacity(n) ==
    IF n = 0 THEN 0
    ELSE BuiltCapacity(n - 1) +
         NUCLEAR_CAPACITY_SEQUENCE[((n - 1) % Len(NUCLEAR_CAPACITY_SEQUENCE)) + 1]

\* units built in START_YEAR .. y
RECURSIVE UnitsThrough(_)
UnitsThrough(y) == IF y < START_YEAR THEN 0 ELSE UnitsThisYear(y) + UnitsThrough(y - 1)

\* nuclear_mw of the counterfactual capacity row of year y
CounterfactualNuclearMW(base_mw, y) == Round1(base_mw + BuiltCapacity(UnitsThrough(y)))

\* the simulator is not running
SimulatorIdle ==
    /\ plants = <<>>
    /\ fossil_builds = <<>>
    /\ planned_konvois = <<>>
    /\ actual_capacity = <<>>
    /\ actual_breakdown = <<>>
    /\ pc = "idle"
    /\ year = START_YEAR
    /\ unit_index = 0
    /\ running_nuclear = 0
    /\ running_fossil = 0
    /\ running_fossil_breakdown = [fuel \in FOSSIL_FUELS |-> 0]
    /\ primary_pool = <<>>
    /\ fallback_pool = <<>>
    /\ closed_record_ids = {}
    /\ baseline_existing_sites = <<>>
    /\ existing_nuclear_sites = <<>>
    /\ site_unit_counter = <<>>
    /\ post_planned_allocation_index = 0
    /\ nuclear_build_count = 0
    /\ events = <<>>
    /\ timeseries_rows = <<>>
    /\ timeseries_df = <<>>
    /\ build_log = <<>>

\* lines 860-898: the state before the loop over the generation rows
InitEmissions ==
    /\ SimulatorIdle
    /\ SelectorIdle
    \* the frame starts at START_YEAR (extend_generation_to_year) or, in a
    \* call whose capacity series cover it, the year before
    /\ gen_first_year \in {START_YEAR - 1, START_YEAR}
    /\ gen_baseline_row \in GenerationRows
    /\ gen_freeze_row \in GenerationRows
    /\ base_nuclear_mw \in {0, 1300 * MW}
    /\ em_pc = "run"
    /\ em_year = gen_first_year
    /\ prev_cf_nuclear_twh = GetValue(gen_baseline_row, "nuclear")
    /\ last_actual = <<>>
    /\ last_counterfactual = <<>>
    /\ em_locals = <<>>
    /\ freeze_cf_renewables = Missing

\* the generation rows a frame can hold for `y`
RowsOfYear(y) ==
    IF y = START_YEAR THEN {gen_baseline_row}
    ELSE IF y = RENEWABLE_FREEZE_YEAR THEN {gen_freeze_row}
    ELSE GenerationRows

\* lines 900-1035: the values computed by one pass of the loop
ProjectStep(data, pair, actual_nuclear_mw) ==
    LET baseline_nuclear_twh == GetValue(gen_baseline_row, "nuclear")
        frozen_renewables_total == SumColumns(gen_freeze_row, RENEWABLE_GENERATION_COLUMNS)
        renewables_twh == SumColumns(data, RENEWABLE_GENERATION_COLUMNS)
        total_twh == SumColumns(data, FOSSIL_GENERATION_COLUMNS)
                     + GetValue(data, "nuclear") + renewables_twh
        cf_nuclear_mw == CounterfactualNuclearMW(base_nuclear_mw, em_year)
        potential_extra_nuclear_twh ==
            PotentialExtraNuclear(em_year, cf_nuclear_mw, actual_nuclear_mw)
        cf_nuclear_twh == CfNuclear(prev_cf_nuclear_twh, baseline_nuclear_twh,
                                    potential_extra_nuclear_twh)
        cf_renewables_twh == CfRenewables(em_year, renewables_twh, frozen_renewables_total)
        required_fossil_twh ==
            RequiredFossil(total_twh, cf_nuclear_twh + cf_renewables_twh + 0)
        split == FossilSplit(data, required_fossil_twh, pair.actual, pair.cf)
        actual_record == ActualRecord(em_year, data)
        cf_record == FinalCounterfactualRecord(em_year, actual_record,
                         CounterfactualRecord(em_year, data, cf_nuclear_twh,
                             cf_renewables_twh, gen_freeze_row, pair.actual, pair.cf))
    IN  [actual_record |-> actual_record,
         cf_record |-> cf_record,
         cf_nuclear_twh |-> cf_nuclear_twh,
         locals |-> [year |-> em_year,
                     total_twh |-> total_twh,
                     renewables_twh |-> renewables_twh,
                     cf_nuclear_mw |-> cf_nuclear_mw,
                     actual_nuclear_mw |-> actual_nuclear_mw,
                     cf_nuclear_twh |-> cf_nuclear_twh,
                     cf_renewables_twh |-> cf_renewables_twh,
                     required_fossil_twh |-> required_fossil_twh,
                     cf_fossil_twh |-> split.cf_fossil_twh,
                     scaled_fossil |-> split.scaled]]

\* one pass of the loop over the generation rows
ProjectYear ==
    /\ em_pc = "run"
    /\ em_year <= GEN_END_YEAR
    /\ \E data \in RowsOfYear(em_year), pair \in BreakdownPairs,
          actual_nuclear_mw \in (IF em_year <= START_YEAR THEN {base_nuclear_mw}
                                 ELSE ActualNuclearChoices) :
         \E step \in {ProjectStep(data, pair, actual_nuclear_mw)} :
             /\ last_actual' = step.actual_record
             /\ last_counterfactual' = step.cf_record
             /\ prev_cf_nuclear_twh' = step.cf_nuclear_twh
             /\ em_locals' = step.locals
             /\ freeze_cf_renewables' =
                    IF em_year = RENEWABLE_FREEZE_YEAR THEN step.cf_record.renewables_twh
                    ELSE freeze_cf_renewables
    /\ em_year' = em_year + 1
    /\ UNCHANGED <<selvars, inputs, pools, simvars, gen_first_year, gen_baseline_row,
                   gen_freeze_row, base_nuclear_mw, em_pc>>

\* lines 1037-1040: the two lists are returned
ReturnEmissions ==
    /\ em_pc = "run"
    /\ em_year > GEN_END_YEAR
    /\ em_pc' = "done"
    /\ UNCHANGED <<selvars, inputs, pools, simvars, gen_first_year, gen_baseline_row,
                   gen_freeze_row, base_nuclear_mw, em_year, prev_cf_nuclear_twh, last_actual,
                   last_counterfactual, em_locals, freeze_cf_renewables>>

NextEmissions == ProjectYear \/ ReturnEmissions

SpecEmissions == InitEmissions /\ [][NextEmissions]_vars

(***************************************************************************)
(* The fossil split of one pass of the emissions loop on its own: the      *)
(* counterfactual nuclear energy of the year is an input                   *)
(***************************************************************************)
InitSplit ==
    /\ SimulatorIdle
    /\ SelectorIdle
    /\ gen_first_year = START_YEAR + 1
    /\ gen_baseline_row \in GenerationRows
    /\ gen_freeze_row \in GenerationRows
    /\ base_nuclear_mw = 0
    /\ em_pc = "split"
    /\ em_year = gen_first_year
    /\ prev_cf_nuclear_twh = GetValue(gen_baseline_row, "nuclear")
    /\ last_actual = <<>>
    /\ last_counterfactual = <<>>
    /\ em_locals = <<>>
    /\ freeze_cf_renewables = Missing

\* lines 944-1031: from cf_nuclear_twh to the counterfactual record
SplitYear ==
    /\ em_pc = "split"
    /\ em_year <= GEN_END_YEAR
    /\ \E data \in RowsOfYear(em_year), pair \in BreakdownPairs,
          cf_nuclear_twh \in {15 * TWh, 200 * TWh, 400 * TWh} :
         LET renewables_twh == SumColumns(data, RENEWABLE_GENERATION_COLUMNS)
             total_twh == SumColumns(data, FOSSIL_GENERATION_COLUMNS)
                          + GetValue(data, "nuclear") + renewables_twh
             cf_renewables_twh ==
                 CfRenewables(em_year, renewables_twh,
                              SumColumns(gen_freeze_row, RENEWABLE_GENERATION_COLUMNS))
             required_fossil_twh ==
                 RequiredFossil(total_twh, cf_nuclear_twh + cf_renewables_twh + 0)
         IN  \E split \in {FossilSplit(data, required_fossil_twh, pair.actual, pair.cf)} :
                 /\ em_locals' = [year |-> em_year,
                                  data |-> data,
                                  breakdown_actual_row |-> pair.actual,
                                  breakdown_cf_row |-> pair.cf,
                                  required_fossil_twh |-> required_fossil_twh,
                                  cf_fossil_twh |-> split.cf_fossil_twh,
                                  scaled_fossil |-> split.scaled,
                                  divisors |-> split.divisors]
                 /\ last_counterfactual' =
                        CounterfactualRecord(em_year, data, cf_nuclear_twh, cf_renewables_twh,
                                             gen_freeze_row, pair.actual, pair.cf)
                 /\ prev_cf_nuclear_twh' = cf_nuclear_twh
    /\ em_year' = em_year + 1
    /\ UNCHANGED <<selvars, inputs, pools, simvars, gen_first_year, gen_baseline_row,
                   gen_freeze_row, base_nuclear_mw, em_pc, last_actual, freeze_cf_renewables>>

SpecSplit == InitSplit /\ [][SplitYear]_vars


(***************************************************************************)
(* pick_fossil_closures called on its own: the pools of a small registry,  *)
(* then calls in years that do not decrease, each with the closed ids the  *)
(* calls before it left                                                    *)
(***************************************************************************)
\* fossil plants of the registries tried: three plants of different fuel
\* and age, a cogeneration plant, a plant of the fallback pool, a gas plant
\* without a commission year, and a smaller, younger coal plant
SelectorTemplates ==
    << [name |-> <<"A">>, municipality |-> <<"A">>, fuel_bucket |-> "lignite",
        technology |-> <<"s","t">>, capacity_mw |-> 200 * MW,
        commission_year |-> 1980, closure_year |-> None],
       [name |-> <<"B">>, municipality |-> <<"B">>, fuel_bucket |-> "natural_gas",
        technology |-> <<"s","t">>, capacity_mw |-> 150 * MW,
        commission_year |-> 1995, closure_year |-> None],
       [name |-> <<"C">>, municipality |-> <<"C">>, fuel_bucket |-> "oil",
        technology |-> <<"s","t">>, capacity_mw |-> 50 * MW,
        commission_year |-> 1970, closure_year |-> 2000],
       [name |-> <<"D">>, municipality |-> NaN, fuel_bucket |-> "hard_coal",
        technology |-> <<"C","H","P">>, capacity_mw |-> 50 * MW,
        commission_year |-> 1960, closure_year |-> None],
       [name |-> <<"H","K","W"," ","E">>, municipality |-> NaN, fuel_bucket |-> "lignite",
        technology |-> <<"s","t">>, capacity_mw |-> 100 * MW,
        commission_year |-> 1950, closure_year |-> None],
       [name |-> <<"G">>, municipality |-> NaN, fuel_bucket |-> "natural_gas",
        technology |-> <<"s","t">>, capacity_mw |-> 50 * MW + 1,
        commission_year |-> None, closure_year |-> None],
       [name |-> <<"F">>, municipality |-> <<"F">>, fuel_bucket |-> "hard_coal",
        technology |-> <<"s","t">>, capacity_mw |-> 120 * MW,
        commission_year |-> 1985, closure_year |-> None] >>

\* the registries tried: three to NumPlants different templates, in
\* template order or in the reverse order
SelectorRegistries ==
    LET picks == { f \in UNION { [1..n -> DOMAIN SelectorTemplates] : n \in 3..NumPlants } :
                     \A i \in 1..(Len(f) - 1) : f[i] < f[i + 1] }
    IN  { [i \in DOMAIN f |-> SelectorTemplates[f[i]]] : f \in picks } \cup
        { [i \in DOMAIN f |-> SelectorTemplates[f[Len(f) + 1 - i]]] : f \in picks }

InitSelector ==
    /\ plants \in SelectorRegistries
    /\ fossil_builds = <<>>
    /\ planned_konvois = <<>>
    /\ actual_capacity = <<>>
    /\ actual_breakdown = <<>>
    /\ pc = "idle"
    /\ year = START_YEAR
    /\ unit_index = 0
    /\ running_nuclear = 0
    /\ running_fossil = 0
    /\ running_fossil_breakdown = [fuel \in FOSSIL_FUELS |-> 0]
    /\ primary_pool = <<>>
    /\ fallback_pool = <<>>
    /\ closed_record_ids = {}
    /\ baseline_existing_sites = <<>>
    /\ existing_nuclear_sites = <<>>
    /\ site_unit_counter = <<>>
    /\ post_planned_allocation_index = 0
    /\ nuclear_build_count = 0
    /\ events = <<>>
    /\ timeseries_rows = <<>>
    /\ timeseries_df = <<>>
    /\ build_log = <<>>
    /\ EmissionsIdle
    /\ sel_pc = "start"
    /\ sel_call = <<>>

\* build_fossil_candidate_pools
BuildPools ==
    /\ sel_pc = "start"
    /\ primary_pool' = PrimaryPool(plants)
    /\ fallback_pool' = FallbackPool(plants)
    /\ sel_pc' = "ready"
    /\ UNCHANGED <<inputs, simvars, emvars, baseline_existing_sites,
                   existing_nuclear_sites, sel_call>>

\* what one call returns and leaves in closed_ids
SelectorCall(call_year, capacity_needed, running_fossil_mw) ==
    LET picked == pick_fossil_closures(call_year, capacity_needed, running_fossil_mw,
                                       primary_pool, fallback_pool, closed_record_ids)
    IN  [year |-> call_year,
         capacity_needed |-> capacity_needed,
         running_fossil |-> running_fossil_mw,
         closed_before |-> closed_record_ids,
         closings |-> picked.closings,
         total_closed |-> picked.total_closed,
         closed_ids |-> picked.closed_ids]

\* one call of pick_fossil_closures
CallSelector ==
    /\ sel_pc \in {"ready", "called"}
    /\ \E call_year \in {1990, 2001},
          capacity_needed \in {0, 50 * MW, 200 * MW, 250 * MW},
          running_fossil_mw \in {0, 120 * MW, 5000 * MW} :
         /\ call_year >= year
         /\ \E call \in {SelectorCall(call_year, capacity_needed, running_fossil_mw)} :
                /\ sel_call' = call
                /\ closed_record_ids' = call.closed_ids
                /\ year' = call_year
    /\ sel_pc' = "called"
    /\ UNCHANGED <<inputs, pools, emvars, pc, unit_index, running_nuclear, running_fossil,
                   running_fossil_breakdown, site_unit_counter,
                   post_planned_allocation_index, nuclear_build_count, events,
                   timeseries_rows, timeseries_df, build_log>>

NextSelector == BuildPools \/ CallSelector

SpecSelector == InitSelector /\ [][NextSelector]_vars

(***************************************************************************)
(* Properties of build_counterfactual_events                               *)
(***************************************************************************)
\* the build event logged last
LastEvent == build_log[Len(build_log)]

\* sum of the four sub-fuel columns of a yearly record
SumBuckets(row) ==
    row.mw["hard_coal"] + row.mw["lignite"] + row.mw["natural_gas"] + row.mw["oil"]

\* the fossil floor of a yearly record of the returned frame
RecordFloor(row) ==
    FossilFloor(ActualRowYear(actual_capacity, row.year).total_mw, row.nuclear_mw, row.other_mw)

\* C1: in every yearly record of the returned counterfactual frame, the
\* years before BUILD_START_YEAR included, fossil_mw is at least
\* max(0, actual total_mw - (nuclear_mw + other_mw)) of that year; a
\* shortfall within one rounding step of the record is not counted
C1_FossilFloorEveryYear ==
    pc = "done" =>
        \A i \in DOMAIN timeseries_df :
            timeseries_df[i].fossil_mw + Tenth >= RecordFloor(timeseries_df[i])

\* C3: every yearly record of the actual series (fossil builds applied) and
\* of the returned counterfactual frame has
\* total_mw = nuclear_mw + fossil_mw + other_mw
C3_TotalIsSum ==
    /\ \A i \in DOMAIN actual_capacity :
           actual_capacity[i].total_mw = actual_capacity[i].nuclear_mw
               + actual_capacity[i].fossil_mw + actual_capacity[i].other_mw
    /\ pc = "done" =>
           \A i \in DOMAIN timeseries_df :
               timeseries_df[i].total_mw = timeseries_df[i].nuclear_mw
                   + timeseries_df[i].fossil_mw + timeseries_df[i].other_mw

\* C3 witness: a returned frame, with a fossil build applied to the actual
\* series, whose last record has all three components positive
C3_Witness ==
    /\ pc = "done"
    /\ fossil_builds # <<>>
    /\ timeseries_df[Len(timeseries_df)].nuclear_mw > 0
    /\ timeseries_df[Len(timeseries_df)].fossil_mw > 0
    /\ timeseries_df[Len(timeseries_df)].other_mw > 0
    /\ actual_capacity[Len(actual_capacity)].fossil_mw
           > CapacityRow(plants, END_YEAR).fossil_mw

\* the plants the selector returned, over the run: <<event, position>>
ReturnedSlots ==
    {s \in (DOMAIN build_log) \X (1..NumPlants) : s[2] <= Len(build_log[s[1]].returned)}

\* C4: over a run no plant is returned by the closure selector twice,
\* neither within one build event nor by two build events
C4_NoPlantReturnedTwice ==
    \A s, t \in ReturnedSlots :
        s # t => build_log[s[1]].returned[s[2]].record_id
                     # build_log[t[1]].returned[t[2]].record_id

\* C4 witness: two build events have each retired a plant, the later one
\* while a plant retired before was still active and small enough
C4_Witness ==
    /\ Len(build_log) >= 2
    /\ LastEvent.returned # <<>>
    /\ \E e \in 1..(Len(build_log) - 1) :
           /\ build_log[e].returned # <<>>
           /\ \E k \in DOMAIN build_log[e].returned :
                  Accepts(build_log[e].returned[k], LastEvent.year,
                          LastEvent.requested_mw, {})

\* C5: every plant the selector returned for a build event of year y was
\* active in y: commission year absent or <= y, closure year absent or >= y
C5_ClosedPlantsWereActive ==
    \A s \in ReturnedSlots :
        LET record == build_log[s[1]].returned[s[2]]
            y == build_log[s[1]].year
        IN  /\ (record.commission_year # None => record.commission_year <= y)
            /\ (record.closure_year # None => record.closure_year >= y)

\* C5 witness: a build event retired a plant while a fossil plant that fits
\* the target and is not retired was passed over for not being active
C5_Witness ==
    /\ build_log # <<>>
    /\ LastEvent.returned # <<>>
    /\ \E i \in DOMAIN plants :
           /\ plants[i].fuel_bucket \in FOSSIL_FUELS
           /\ i \notin closed_record_ids
           /\ plants[i].capacity_mw <= LastEvent.requested_mw - LastEvent.fossil_closed
           /\ ~IsActive(plants[i], LastEvent.year)

\* C9: the run raises no error and the returned frame holds exactly one
\* record per year START_YEAR .. END_YEAR, in ascending order
C9_CompletesEveryYear ==
    /\ pc # "error"
    /\ pc = "done" =>
           /\ Len(timeseries_df) = END_YEAR - START_YEAR + 1
           /\ \A i \in DOMAIN timeseries_df : timeseries_df[i].year = START_YEAR + i - 1

\* C10: in every yearly record of the returned counterfactual frame the four
\* sub-fuel columns sum to at most fossil_mw; an excess within the rounding
\* of the five columns is not counted
C10_BucketsWithinFossil ==
    pc = "done" =>
        \A i \in DOMAIN timeseries_df :
            SumBuckets(timeseries_df[i]) <= timeseries_df[i].fossil_mw + 3 * Tenth


(***************************************************************************)
(* Properties of compute_emissions_timeseries                              *)
(***************************************************************************)
\* the loop has appended a record pair, for year em_locals.year
HasRecords == em_pc # "idle" /\ em_year > gen_first_year

\* distance of two values
Dist(a, b) == IF a >= b THEN a - b ELSE b - a

\* C2 as stated: for every year after START_YEAR the counterfactual record's
\* total_twh equals the historical record's total_twh within 0.01
C2_TotalEqualsHistorical ==
    (HasRecords /\ em_locals.year > START_YEAR) =>
        Dist(last_counterfactual.total_twh, last_actual.total_twh) <= Hundredth

\* C2 amended: for every year after START_YEAR the counterfactual total_twh
\* is at least the historical total_twh, and equals it whenever
\* counterfactual nuclear plus renewables do not exceed the historical total
C2_TotalAtLeastHistorical ==
    (HasRecords /\ em_locals.year > START_YEAR) =>
        /\ last_counterfactual.total_twh >= last_actual.total_twh
        /\ (em_locals.cf_nuclear_twh + em_locals.cf_renewables_twh <= em_locals.total_twh
                => last_counterfactual.total_twh = last_actual.total_twh)
        /\ (em_locals.cf_nuclear_twh + em_locals.cf_renewables_twh > em_locals.total_twh
                => last_counterfactual.total_twh =
                       Round2(em_locals.cf_nuclear_twh + em_locals.cf_renewables_twh))

\* C2 witness: a year after START_YEAR in which fossil generation fills a
\* positive gap up to the historical total
C2_Witness ==
    /\ HasRecords
    /\ em_locals.year > START_YEAR
    /\ em_locals.required_fossil_twh > 0
    /\ last_counterfactual.fossil_twh > 0
    /\ last_counterfactual.nuclear_twh > last_actual.nuclear_twh

\* C6: from one year to the next, the later year after START_YEAR, the
\* counterfactual record's nuclear_twh does not decrease
C6_NuclearNeverDecreases ==
    [][(HasRecords /\ em_locals.year >= START_YEAR /\ em_year' = em_year + 1)
           => last_counterfactual'.nuclear_twh >= last_counterfactual.nuclear_twh]_vars

\* C6 witness: a year in which actual nuclear capacity is at least the
\* counterfactual one, while counterfactual nuclear output stays above the
\* baseline output
C6_Witness ==
    /\ HasRecords
    /\ em_locals.year > START_YEAR
    /\ em_locals.actual_nuclear_mw >= em_locals.cf_nuclear_mw
    /\ em_locals.cf_nuclear_twh > GetValue(gen_baseline_row, "nuclear")
    /\ last_counterfactual.nuclear_twh > last_actual.nuclear_twh

\* C7: for START_YEAR and every year before it the counterfactual record is
\* the historical record, field by field
C7_BaselineRecordIsHistorical ==
    (HasRecords /\ em_locals.year <= START_YEAR) => last_counterfactual = last_actual

\* C7 witness: the record of START_YEAR, in a frame that starts before it,
\* where the fossil split computed for the counterfactual differs from the
\* historical fossil generation
C7_Witness ==
    /\ HasRecords
    /\ em_locals.year = START_YEAR
    /\ gen_first_year < START_YEAR
    /\ Round2(em_locals.cf_fossil_twh) # last_actual.fossil_twh

\* C8: the counterfactual record's renewables_twh is the historical one
\* before RENEWABLE_FREEZE_YEAR, and the one of the record of
\* RENEWABLE_FREEZE_YEAR from that year on
C8_RenewablesFrozen ==
    HasRecords =>
        IF em_locals.year < RENEWABLE_FREEZE_YEAR
        THEN last_counterfactual.renewables_twh = last_actual.renewables_twh
        ELSE last_counterfactual.renewables_twh = freeze_cf_renewables

\* C8 witness: a year after RENEWABLE_FREEZE_YEAR whose historical
\* renewables differ from the frozen value
C8_Witness ==
    /\ HasRecords
    /\ em_locals.year > RENEWABLE_FREEZE_YEAR
    /\ last_actual.renewables_twh # freeze_cf_renewables
    /\ last_counterfactual.renewables_twh = freeze_cf_renewables

\* the identities of one emissions record, up to the rounding of its fields
RecordAddsUp(rec) ==
    /\ Dist(rec.total_twh, rec.fossil_twh + rec.nuclear_twh + rec.renewables_twh)
           <= 2 * Hundredth
    /\ Dist(rec.clean_twh, rec.nuclear_twh + rec.renewables_twh) <= Hundredth

\* C11: every emissions record of both scenarios has
\* total_twh = fossil_twh + nuclear_twh + renewables_twh and
\* clean_twh = nuclear_twh + renewables_twh; a difference within the
\* rounding of the fields is not counted
C11_RecordsAddUp ==
    HasRecords => RecordAddsUp(last_actual) /\ RecordAddsUp(last_counterfactual)

\* an event list is in ascending order of (year, date, name)
EventsAscending(es) ==
    \A i \in 1..(Len(es) - 1) : SeqLeq(EventKey(es[i]), EventKey(es[i + 1]))

\* C12: the event list of each scenario, as exported, is in ascending
\* order of (year, date, name)
C12_EventListsSorted ==
    pc = "done" =>
        /\ EventsAscending(build_historical_events(fossil_builds, plants, START_YEAR, END_YEAR))
        /\ EventsAscending(events)

\* the historical half of C12: the sorted list of build_historical_events
C12_HistoricalEventsSorted ==
    EventsAscending(build_historical_events(fossil_builds, plants, START_YEAR, END_YEAR))

(***************************************************************************)
(* Properties of pick_fossil_closures                                      *)
(***************************************************************************)
\* the registry is exactly the plants A, B and C, in any order
RegistryIsABC ==
    /\ Len(plants) = 3
    /\ {plants[i].name : i \in DOMAIN plants} = {<<"A">>, <<"B">>, <<"C">>}

\* the names of the plants a call returned, in the order returned
ReturnedNames == [i \in DOMAIN sel_call.closings |-> sel_call.closings[i].name]

\* the row numbers of the registry rows with the name n
IdsNamed(n) == {i \in DOMAIN plants : plants[i].name = n}

\* the call of the three-plant scenario: nothing closed before, running
\* fossil not below the target
ScenarioCall(call_year, target_mw) ==
    /\ sel_pc = "called"
    /\ RegistryIsABC
    /\ sel_call.closed_before = {}
    /\ sel_call.year = call_year
    /\ sel_call.capacity_needed = target_mw
    /\ sel_call.running_fossil >= target_mw

\* C13: with the registry A (lignite, 200 MW, 1980), B (natural_gas, 150 MW,
\* 1995), C (oil, 50 MW, 1970, closed 2000), nothing closed before and enough
\* running fossil, the call for 1990 with a target of 200 MW returns exactly
\* A, reports 200 MW closed, leaves no residual and adds only A to the
\* closed ids
C13_Target200In1990ClosesA ==
    ScenarioCall(1990, 200 * MW) =>
        /\ ReturnedNames = << <<"A">> >>
        /\ sel_call.total_closed = 200 * MW
        /\ sel_call.capacity_needed - sel_call.total_closed = 0
        /\ sel_call.closed_ids = IdsNamed(<<"A">>)

C13_Witness ==
    /\ ScenarioCall(1990, 200 * MW)
    /\ Len(sel_call.closings) = 1
    /\ sel_call.closed_ids # {}

\* the registry row with the name n
PlantNamed(n) == plants[CHOOSE i \in DOMAIN plants : plants[i].name = n]

\* C14: with the same registry, nothing closed before and enough running
\* fossil, the call for 2001 with a target of 250 MW leaves out C (closed
\* before 2001), accepts A, skips B (150 MW, more than the 50 MW still needed
\* after A), reports 200 MW closed and leaves a residual of 50 MW
C14_Target250In2001ClosesOnlyA ==
    ScenarioCall(2001, 250 * MW) =>
        /\ PlantNamed(<<"C">>).closure_year < sel_call.year
        /\ ReturnedNames = << <<"A">> >>
        /\ sel_call.closed_ids = IdsNamed(<<"A">>)
        /\ PlantNamed(<<"B">>).commission_year <= sel_call.year
        /\ PlantNamed(<<"B">>).capacity_mw >
               sel_call.capacity_needed - PlantNamed(<<"A">>).capacity_mw
        /\ sel_call.total_closed = 200 * MW
        /\ sel_call.capacity_needed - sel_call.total_closed = 50 * MW

C14_Witness ==
    /\ ScenarioCall(2001, 250 * MW)
    /\ Len(sel_call.closings) = 1
    /\ sel_call.total_closed < sel_call.capacity_needed

(***************************************************************************)
(* The build schedule and the closed ids of build_counterfactual_events    *)
(***************************************************************************)
\* the number of nuclear_build events of the year y in the event list
NuclearBuildsIn(y) ==
    Cardinality({i \in DOMAIN events : /\ events[i].event_type = "nuclear_build"
                                       /\ events[i].year = y})

\* the years whose units have all been built
FinishedYears == IF pc \in {"loop", "done"} THEN START_YEAR..(year - 1) ELSE {}

\* C15: the number of nuclear_build events of a year y is 0 for y before
\* 1990 and otherwise 2 when y - 1990 is even and 1 when it is odd, for every
\* year through END_YEAR
C15_UnitsFollowPattern ==
    \A y \in FinishedYears :
        NuclearBuildsIn(y) = IF y < 1990 THEN 0
                             ELSE IF (y - 1990) % 2 = 0 THEN 2 ELSE 1

C15_Witness ==
    /\ pc = "done"
    /\ NuclearBuildsIn(1989) = 0
    /\ NuclearBuildsIn(1990) = 2
    /\ NuclearBuildsIn(1991) = 1
    /\ NuclearBuildsIn(1992) = 2

\* the ids of the plants in a list of candidate records
IdsOf(records) == {records[i].record_id : i \in DOMAIN records}

\* C16: within a run no step removes an id from the closed ids, and a step
\* that adds ids is a build event whose added ids are exactly the ids of the
\* plants the closure selector accepted in that event
C16_ClosedIdsAppendOnly ==
    [][/\ closed_record_ids \subseteq closed_record_ids'
       /\ closed_record_ids' # closed_record_ids =>
              /\ Len(build_log') = Len(build_log) + 1
              /\ closed_record_ids' \ closed_record_ids =
                     IdsOf(build_log'[Len(build_log')].returned)]_vars

C16_Witness ==
    /\ build_log # <<>>
    /\ LastEvent.closed_before # {}
    /\ LastEvent.returned # <<>>
    /\ closed_record_ids = LastEvent.closed_before \cup IdsOf(LastEvent.returned)

\* the candidate records of both pools
Candidates ==
    {primary_pool[i] : i \in DOMAIN primary_pool} \cup
    {fallback_pool[i] : i \in DOMAIN fallback_pool}

\* the first plant the last call retired
FirstRetired == sel_call.closings[1]

\* q is another plant than p that was unclosed before the call, is not a
\* cogeneration plant, is online in the call's year, fits the closure target
\* and has an earlier commission year than p
OlderRival(q, p) ==
    /\ q.record_id # p.record_id
    /\ q.record_id \notin sel_call.closed_before
    /\ ~q.is_cogeneration
    /\ IsActive(q, sel_call.year)
    /\ q.capacity_mw <= sel_call.capacity_needed
    /\ q.commission_year # None
    /\ p.commission_year # None
    /\ q.commission_year < p.commission_year

\* q is a candidate of the pool of p
SamePool(q, p) == InPrimaryMask(q) <=> InPrimaryMask(p)

ReturnedCapacity(n) == SumCapacity(SubSeq(sel_call.closings, 1, n))

\* C19: in every call each plant returned had a capacity of at most the need
\* that remained when it was scanned, so the capacities of the plants
\* returned sum to at most capacity_needed, and the closure reported is never
\* more than capacity_needed
C19_NoOverClosure ==
    sel_pc = "called" =>
        /\ \A i \in DOMAIN sel_call.closings :
               sel_call.closings[i].capacity_mw <=
                   sel_call.capacity_needed - ReturnedCapacity(i - 1) + Eps
        /\ ReturnedCapacity(Len(sel_call.closings)) <= sel_call.capacity_needed + Eps
        /\ sel_call.total_closed <= sel_call.capacity_needed + Eps

\* a call that returned two plants and left a shortfall although a candidate
\* was still unclosed and online: the candidate was larger than the need left
C19_Witness ==
    /\ sel_pc = "called"
    /\ Len(sel_call.closings) >= 2
    /\ ReturnedCapacity(Len(sel_call.closings)) < sel_call.capacity_needed
    /\ \E q \in Candidates :
           /\ q.record_id \notin sel_call.closed_ids
           /\ IsActive(q, sel_call.year)
           /\ q.capacity_mw >
                  sel_call.capacity_needed - ReturnedCapacity(Len(sel_call.closings))

\* the order of a pool as the claim words it: fuel priority, then
\* non-cogeneration before cogeneration, then the commission year with a
\* missing year last, then the capacity
ScanRank(r) ==
    <<CASE r.fuel_bucket \in {"lignite", "hard_coal"} -> 0
        [] r.fuel_bucket = "oil" -> 1
        [] r.fuel_bucket = "natural_gas" -> 2
        [] OTHER -> 3,
      IF r.is_cogeneration THEN 1 ELSE 0,
      IF r.commission_year = None THEN 1 ELSE 0,
      IF r.commission_year = None THEN 0 ELSE r.commission_year,
      r.capacity_mw>>

PoolAscending(pool) ==
    \A i \in 1..(Len(pool) - 1) : SeqLeq(ScanRank(pool[i]), ScanRank(pool[i + 1]))

\* the candidates in the order of the scan, and the place of a plant in it
ScanOrder == primary_pool \o fallback_pool

ScanPlace(r) == CHOOSE i \in DOMAIN ScanOrder : ScanOrder[i].record_id = r.record_id

\* the need that remained when the candidate at place k was scanned: the
\* target less the plants accepted at earlier places
RemainingAt(k) ==
    Max(0, sel_call.capacity_needed -
           SumCapacity(SelectSeq(sel_call.closings, LAMBDA c : ScanPlace(c) < k)))

\* the plant at place k stayed unclosed through the call and was active in
\* the call's year
PassedOver(k) ==
    /\ ScanOrder[k].record_id \notin sel_call.closed_ids
    /\ IsActive(ScanOrder[k], sel_call.year)

\* C20: each pool is in ascending order of (fuel priority, cogeneration,
\* commission year with a missing year last, capacity); the plants a call
\* accepts come in the order primary pool, then fallback pool; whenever a
\* plant P is accepted, every plant Q ahead of P in that order that stayed
\* unclosed and was active in the call's year was larger than the need
\* remaining when Q was scanned; and a fallback plant is accepted only if the
\* need remaining after the whole primary pool is positive
C20_ScanOrderRespected ==
    sel_pc = "called" =>
        /\ PoolAscending(primary_pool)
        /\ PoolAscending(fallback_pool)
        /\ \A i \in 1..(Len(sel_call.closings) - 1) :
               ScanPlace(sel_call.closings[i]) < ScanPlace(sel_call.closings[i + 1])
        /\ \A i \in DOMAIN sel_call.closings :
               \A k \in 1..(ScanPlace(sel_call.closings[i]) - 1) :
                   PassedOver(k) => ScanOrder[k].capacity_mw > RemainingAt(k)
        /\ (\E i \in DOMAIN sel_call.closings : ~InPrimaryMask(sel_call.closings[i]))
               => RemainingAt(Len(primary_pool) + 1) > 0

\* a call that accepted a primary plant, passed over a later primary plant
\* too large for the need left, and then accepted a plant of the fallback
\* pool
C20_Witness ==
    /\ sel_pc = "called"
    /\ \E i, j \in DOMAIN sel_call.closings :
           /\ i < j
           /\ InPrimaryMask(sel_call.closings[i])
           /\ ~InPrimaryMask(sel_call.closings[j])
           /\ \E k \in (ScanPlace(sel_call.closings[i]) + 1)..Len(primary_pool) :
                  PassedOver(k) /\ ScanOrder[k].capacity_mw > RemainingAt(k)

(***************************************************************************)
(* Properties of one build event                                           *)
(***************************************************************************)
\* the fossil capacity a build event removed: the plants it closed plus its
\* residual closure
RemovedBy(e) == SumCapacity(e.closings) + e.residual_closure_mw

\* the headroom above the floor before the closures of a build event
Headroom(e) == Max(0, e.fossil_before - e.fossil_floor_mw)

\* C21: for every build event, the fossil capacity the event removes (the
\* plants closed plus the residual closure, and the fall of running fossil)
\* is at most the nuclear capacity the unit adds and at most the headroom
\* max(0, running fossil before - fossil floor)
C21_RemovalWithinTargetBounds ==
    \A n \in DOMAIN build_log :
        LET e == build_log[n]
        IN  /\ RemovedBy(e) <= e.capacity_added
            /\ RemovedBy(e) <= Headroom(e)
            /\ e.fossil_before - e.fossil_after <= e.capacity_added
            /\ e.fossil_before - e.fossil_after <= Headroom(e)

\* an event that closed a plant and a residual, limited by the headroom
C21_Witness ==
    /\ build_log # <<>>
    /\ LastEvent.closings # <<>>
    /\ LastEvent.residual_closure_mw > 0
    /\ RemovedBy(LastEvent) = Headroom(LastEvent)
    /\ Headroom(LastEvent) < LastEvent.capacity_added

\* the places of the nuclear_build events in the event list, and the place
\* of the n-th of them
BuildPlaces == {i \in DOMAIN events : events[i].event_type = "nuclear_build"}

PlaceOfBuild(n) ==
    IF n = 0 THEN 0
    ELSE CHOOSE i \in BuildPlaces : Cardinality({j \in BuildPlaces : j <= i}) = n

\* the nuclear_build event of the n-th unit and the events between it and the
\* nuclear_build event before it
BuildEventOf(n) == events[PlaceOfBuild(n)]

ClosureEntriesOf(n) == SubSeq(events, PlaceOfBuild(n - 1) + 1, PlaceOfBuild(n) - 1)

\* sum of fossil_capacity_closed_mw over a list of closure entries
RECURSIVE SumClosed(_)
SumClosed(entries) ==
    IF entries = <<>> THEN 0
    ELSE Head(entries).fossil_capacity_closed_mw + SumClosed(Tail(entries))

\* the residual of the event is on the entry of its last closing plant, or,
\* when no plant closed, on a single 'Residual fossil fleet' entry
ResidualRecorded(e, entries) ==
    IF e.closings # <<>>
    THEN /\ Len(entries) = Len(e.closings)
         /\ \A i \in DOMAIN entries :
                /\ entries[i].name # TXT_RESIDUAL
                /\ entries[i].dummy_capacity_closed_mw =
                       IF i = Len(entries) THEN Round1(e.residual_closure_mw) ELSE 0
                /\ entries[i].fossil_capacity_closed_mw =
                       Round1(e.closings[i].capacity_mw +
                              IF i = Len(entries) THEN e.residual_closure_mw ELSE 0)
    ELSE IF e.residual_closure_mw > 0
    THEN /\ Len(entries) = 1
         /\ entries[1].name = TXT_RESIDUAL
         /\ entries[1].fossil_capacity_closed_mw = Round1(e.residual_closure_mw)
    ELSE entries = <<>>

\* running fossil falls by the closure target, which is the plants closed
\* plus the residual, and the residual is recorded as the claim says
ClosureBooked(n) ==
    LET e == build_log[n]
    IN  /\ RemovedBy(e) = e.closure_target_mw
        /\ e.fossil_before - e.fossil_after = e.closure_target_mw
        /\ ResidualRecorded(e, ClosureEntriesOf(n))

\* C22 as stated: for every build event with closure_target > 0 the plants
\* closed plus the residual equal closure_target and running fossil falls by
\* it; the residual is on the entry of the last closing plant, or on a single
\* 'Residual fossil fleet' entry when no plant closed; and the
\* fossil_capacity_closed_mw of the closure entries sum to the
\* fossil_capacity_closed_mw of the nuclear_build event
C22_ClosureEntriesSumToBuild ==
    \A n \in DOMAIN build_log :
        build_log[n].closure_target_mw > 0 =>
            /\ ClosureBooked(n)
            /\ SumClosed(ClosureEntriesOf(n)) = BuildEventOf(n).fossil_capacity_closed_mw

\* C22 amended: as above, with the recorded fossil_capacity_closed_mw of the
\* closure entries summing to that of the nuclear_build event within the
\* rounding of the entries, 0.1 MW for each closure entry
C22_ClosureEntriesSumToBuildRounded ==
    \A n \in DOMAIN build_log :
        build_log[n].closure_target_mw > 0 =>
            /\ ClosureBooked(n)
            /\ Dist(SumClosed(ClosureEntriesOf(n)), BuildEventOf(n).fossil_capacity_closed_mw)
                   <= Len(ClosureEntriesOf(n)) * Tenth

\* an event that closed two plants and a residual, with entries that do not
\* sum to the figure of its nuclear_build event
C22_Witness ==
    /\ build_log # <<>>
    /\ Len(LastEvent.closings) >= 2
    /\ LastEvent.residual_closure_mw > 0
    /\ SumClosed(ClosureEntriesOf(Len(build_log))) #
           BuildEventOf(Len(build_log)).fossil_capacity_closed_mw

\* the closed ids as the n-th build event left them
ClosedIdsAfter(n) ==
    IF n < Len(build_log) THEN build_log[n + 1].closed_before ELSE closed_record_ids

\* the selector reported more for the n-th build event than its closure
\* target, beyond the tolerance
Overshoot(n) == build_log[n].reported > build_log[n].requested_mw + Eps

\* C23: when the closed capacity the selector reports for a build event is
\* above closure_target by more than the tolerance, the ids of all plants
\* selected in the event are out of the closed ids again, the event has no
\* fossil_closure entry and no residual, running fossil is not reduced, and
\* the nuclear_build event of the unit is emitted without error
C23_OvershootRolledBack ==
    /\ Cardinality(BuildPlaces) = Len(build_log)
    /\ \A n \in DOMAIN build_log :
           Overshoot(n) =>
               LET e == build_log[n]
               IN  /\ pc # "error"
                   /\ ClosedIdsAfter(n) = e.closed_before
                   /\ IdsOf(e.returned) \cap ClosedIdsAfter(n) = {}
                   /\ ClosureEntriesOf(n) = <<>>
                   /\ e.residual_closure_mw = 0
                   /\ BuildEventOf(n).fossil_capacity_closed_mw = 0
                   /\ BuildEventOf(n).dummy_fossil_capacity_closed_mw = 0
                   /\ BuildEventOf(n).fossil_sites_closed = <<>>
                   /\ e.fossil_after >= e.fossil_before
                   /\ BuildEventOf(n).year = e.year
                   /\ BuildEventOf(n).mw_added = Round1(e.capacity_added)

\* a plant selected in an event that was rolled back is closed by a later
\* event
C23_Witness ==
    \E m, n \in DOMAIN build_log :
        /\ m < n
        /\ Overshoot(m)
        /\ build_log[m].returned # <<>>
        /\ IdsOf(build_log[m].returned) \cap IdsOf(build_log[n].closings) # {}

\* C24: running fossil only decreases: after every build event it is at most
\* its value before the event, and the fossil_mw of every yearly record
\* after the first is at most the fossil_mw of the record of the year before
C24_FossilNeverIncreases ==
    /\ \A n \in DOMAIN build_log : build_log[n].fossil_after <= build_log[n].fossil_before
    /\ \A i \in DOMAIN timeseries_rows :
           i > 1 => timeseries_rows[i].fossil_mw <= timeseries_rows[i - 1].fossil_mw

\* the build events of the year of the i-th yearly record
EventsOfRecord(i) == {n \in DOMAIN build_log : build_log[n].year = timeseries_rows[i].year}

\* C24 amended: after every build event running fossil is at most the larger
\* of its value before the event and the fossil floor of the event, and the
\* fossil_mw of a yearly record is at most that of the year before unless the
\* floor of a build event of the year lies above running fossil
C24_FossilRisesOnlyToFloor ==
    /\ \A n \in DOMAIN build_log :
           build_log[n].fossil_after <=
               Max(build_log[n].fossil_before, build_log[n].fossil_floor_mw)
    /\ \A i \in DOMAIN timeseries_rows :
           (/\ i > 1
            /\ \A n \in EventsOfRecord(i) :
                   build_log[n].fossil_floor_mw <= build_log[n].fossil_before)
               => timeseries_rows[i].fossil_mw <= timeseries_rows[i - 1].fossil_mw

\* a build event raised running fossil to its floor, after a year whose
\* record fell below that of the year before
C24_Witness ==
    /\ build_log # <<>>
    /\ LastEvent.fossil_after > LastEvent.fossil_before
    /\ LastEvent.fossil_after = LastEvent.fossil_floor_mw
    /\ Len(timeseries_rows) >= 2
    /\ timeseries_rows[2].fossil_mw < timeseries_rows[1].fossil_mw

\* the nuclear capacity of the registry active at START_YEAR
BaselineNuclear ==
    SumCapacity(SelectSeq(plants, LAMBDA p : /\ p.fuel_bucket = "nuclear"
                                            /\ IsActive(p, START_YEAR)))

\* the number of units built up to and including the year y
UnitsBuiltThrough(y) == Cardinality({n \in DOMAIN build_log : build_log[n].year <= y})

\* C25: the nuclear_mw recorded for a year is the nuclear capacity of the
\* registry active at START_YEAR plus 1410 MW for every unit built up to and
\* including that year (rounded to 0.1 MW as every recorded figure); every
\* unit adds 1410 MW; the recorded value never decreases, whatever nuclear
\* plants the registry commissions or closes after START_YEAR
C25_NuclearIsBaselinePlusUnits ==
    /\ \A n \in DOMAIN build_log : build_log[n].capacity_added = 1410 * MW
    /\ \A i \in DOMAIN timeseries_rows :
           /\ timeseries_rows[i].nuclear_mw =
                  Round1(BaselineNuclear +
                         1410 * MW * UnitsBuiltThrough(timeseries_rows[i].year))
           /\ i > 1 => timeseries_rows[i].nuclear_mw >= timeseries_rows[i - 1].nuclear_mw

\* a finished run over a registry with a nuclear plant active at START_YEAR
\* that closes later and a nuclear plant commissioned later
C25_Witness ==
    /\ pc = "done"
    /\ BaselineNuclear > 0
    /\ \E i, j \in DOMAIN plants :
           /\ plants[i].fuel_bucket = "nuclear"
           /\ plants[i].closure_year # None
           /\ plants[i].closure_year <= END_YEAR
           /\ plants[j].fuel_bucket = "nuclear"
           /\ plants[j].commission_year # None
           /\ plants[j].commission_year > START_YEAR
    /\ timeseries_rows[Len(timeseries_rows)].nuclear_mw > timeseries_rows[1].nuclear_mw

\* the events a step appended to the event list
NewEvents == SubSeq(events', Len(events) + 1, Len(events'))

\* the entries i of a list of events that are the synthetic closure
SyntheticPlaces(es) == {i \in DOMAIN es : es[i].name = TXT_RESIDUAL}

\* the events of one unit: the closure entries, one per plant the selector
\* returned and in its order, or the single synthetic entry, and then the
\* nuclear_build event
UnitEvents(e, es) ==
    /\ es # <<>>
    /\ es[Len(es)].event_type = "nuclear_build"
    /\ es[Len(es)].year = e.year
    /\ \A i \in 1..(Len(es) - 1) :
           /\ es[i].event_type = "fossil_closure"
           /\ es[i].date = es[Len(es)].date
    /\ IF e.returned # <<>>
       THEN /\ Len(es) - 1 = Len(e.returned)
            /\ SyntheticPlaces(es) = {}
            /\ \A i \in DOMAIN e.returned :
                   /\ es[i].name = Descriptor(e.returned[i])
                   /\ es[i].mw_removed = Round1(e.returned[i].capacity_mw)
       ELSE IF e.residual_closure_mw > 0
       THEN Len(es) = 2 /\ SyntheticPlaces(es) = {1}
       ELSE Len(es) = 1

\* C26: every unit emits exactly one nuclear_build event, after its closure
\* events; its closure events are one fossil_closure per plant the selector
\* returned; the synthetic residual-fleet closure is emitted only when no
\* plant closed and the residual is positive, never beside entries of plants;
\* and no other step emits events
C26_OneBuildAfterItsClosures ==
    [][IF Len(build_log') = Len(build_log) + 1
       THEN UnitEvents(build_log'[Len(build_log')], NewEvents)
       ELSE events' = events]_vars

\* a run with a unit that closed two plants and a unit that closed only a
\* residual
C26_Witness ==
    /\ \E n \in DOMAIN build_log :
           /\ Len(build_log[n].returned) >= 2
           /\ build_log[n].residual_closure_mw > 0
           /\ Len(ClosureEntriesOf(n)) = 2
    /\ \E n \in DOMAIN build_log :
           /\ build_log[n].returned = <<>>
           /\ build_log[n].residual_closure_mw > 0
           /\ Len(ClosureEntriesOf(n)) = 1

(***************************************************************************)
(* Properties of the site allocation                                       *)
(***************************************************************************)
\* the units built so far that carry the display name and the municipality
\* of the k-th planned site
UnitsAt(k) ==
    {n \in DOMAIN build_log : /\ BuildEventOf(n).site = planned_konvois[k].display
                              /\ BuildEventOf(n).municipality = planned_konvois[k].municipality}

\* C27: the planned sites are used first and in list order: the unit number
\* n of the run, for n up to the number of planned sites, is allocated to the
\* n-th planned site; every planned entry built so far is used by exactly one
\* unit; and the pattern of the other rules has not advanced until the
\* planned list is exhausted
C27_PlannedSitesFirstInOrder ==
    /\ Cardinality(BuildPlaces) = Len(build_log)
    /\ \A n \in DOMAIN build_log :
           n <= Len(planned_konvois) =>
               /\ BuildEventOf(n).site = planned_konvois[n].display
               /\ BuildEventOf(n).municipality = planned_konvois[n].municipality
               /\ UnitsAt(n) = {n}
    /\ Len(build_log) <= Len(planned_konvois) => post_planned_allocation_index = 0

\* a finished run that used two planned sites and then the other rules
C27_Witness ==
    /\ pc = "done"
    /\ Len(planned_konvois) = 2
    /\ Len(build_log) > 2
    /\ BuildEventOf(1).site # BuildEventOf(2).site
    /\ post_planned_allocation_index > 0

\* the municipalities of the nuclear plants of the registry that are active
\* in START_YEAR
BaselineNuclearMunicipalities ==
    {Strip(plants[i].municipality) :
        i \in {k \in DOMAIN plants : /\ plants[k].fuel_bucket = "nuclear"
                                     /\ IsActive(plants[k], START_YEAR)
                                     /\ plants[k].municipality # NaN
                                     /\ Strip(plants[k].municipality) # <<>>}}

\* the names of the nuclear plants of the registry, in registry order
NuclearSiteNames ==
    LET rows == SelectSeq(plants, LAMBDA p : p.fuel_bucket = "nuclear")
    IN  [i \in DOMAIN rows |-> Strip(rows[i].name)]

\* the label a nuclear site name is booked under: its municipality when the
\* registry gives one, else the name
LabelOfSite(name) ==
    LET mapped == Strip(MunicipalityMapGet(plants, name))
    IN  IF mapped # <<>> THEN mapped ELSE name

\* m is the site of sites with the least unit counter, the alphabetically
\* first of those with the least
LeastCounted(m, sites, counter) ==
    /\ m \in sites
    /\ \A b \in sites \ {m} :
           \/ CounterGet(counter, m) < CounterGet(counter, b)
           \/ CounterGet(counter, m) = CounterGet(counter, b) /\ TextLess(m, b)

\* the units allocated after the planned sites were used up
PostPlanned == {n \in DOMAIN build_log : build_log[n].build_count_before >= Len(planned_konvois)}

\* the n-th unit went to the municipality of the first plant its event
\* closed or, nothing closed, to the site the unit's number in the run picks
\* from the list names
ClosingOrRoundRobin(n, names) ==
    IF build_log[n].closings # <<>>
    THEN /\ BuildEventOf(n).municipality = Strip(build_log[n].closings[1].municipality)
         /\ Strip(build_log[n].closings[1].municipality) # <<>> =>
                BuildEventOf(n).site = BuildEventOf(n).municipality
    ELSE /\ names # <<>>
         /\ BuildEventOf(n).site =
                LabelOfSite(names[(build_log[n].build_count_before % Len(names)) + 1])

\* the post-planned allocation number j of every unit after the planned
\* sites is the number of post-planned units before it, and the unit follows
\* the existing-site rule over the list sites iff j mod 4 is not 3
FollowsPattern(sites, names) ==
    \A n \in PostPlanned :
        LET j == build_log[n].allocation_index_before
        IN  /\ j = build_log[n].build_count_before - Len(planned_konvois)
            /\ j % 4 # 3 =>
                   /\ LeastCounted(BuildEventOf(n).municipality, sites,
                                   build_log[n].counter_before)
                   /\ BuildEventOf(n).site = BuildEventOf(n).municipality
            /\ j % 4 = 3 => ClosingOrRoundRobin(n, names)

ExistingSiteChoices ==
    IF BaselineNuclearMunicipalities # {} THEN BaselineNuclearMunicipalities
    ELSE IF NuclearSiteNames # <<>>
    THEN {LabelOfSite(NuclearSiteNames[i]) : i \in DOMAIN NuclearSiteNames}
    ELSE {TXT_GENERIC}

SplitCapacity(bd, column) ==
    CASE column = "coal" -> bd["hard_coal"] + bd["lignite"]
      [] column = "gas" -> bd["natural_gas"]
      [] column = "oil" -> bd["oil"]

\* actual generation of a column scaled by the ratio of counterfactual to
\* actual capacity, 0 when there is no actual capacity
ScaledByRatio(column) ==
    IF SplitCapacity(em_locals.breakdown_actual_row, column) > 0
    THEN MulDiv(GetValue(em_locals.data, column),
                SplitCapacity(em_locals.breakdown_cf_row, column),
                SplitCapacity(em_locals.breakdown_actual_row, column))
    ELSE 0

ScaledSum == ScaledByRatio("coal") + ScaledByRatio("gas") + ScaledByRatio("oil")

AllRatiosZero ==
    \A column \in {"coal", "gas", "oil"} :
        \/ SplitCapacity(em_locals.breakdown_actual_row, column) <= 0
        \/ SplitCapacity(em_locals.breakdown_cf_row, column) = 0

\* C29: in every year the counterfactual coal, gas and oil energies used for
\* CO2 are non-negative and sum to cf_fossil_twh, the value recorded as
\* fossil_twh rounded to 0.01 TWh (the sum to within one step of the
\* fixed-point division); they are the actual generation scaled by the
\* capacity ratio and renormalised when that scaled sum and the required
\* fossil energy are positive, the capacity shares of the required fossil
\* energy when all ratios are zero and there is counterfactual fossil
\* capacity, and all zero with fossil_twh zero when there is none; and no
\* division has a zero denominator
C29_FossilSplitSumsToFossil ==
    em_locals # <<>> =>
        LET columns == {"coal", "gas", "oil"}
            scaled == em_locals.scaled_fossil
            required == em_locals.required_fossil_twh
            cf_capacity == SumBreakdown(em_locals.breakdown_cf_row)
        IN  /\ \A column \in columns : scaled[column] >= 0
            /\ Dist(scaled["coal"] + scaled["gas"] + scaled["oil"], em_locals.cf_fossil_twh) <= 1
            /\ last_counterfactual.fossil_twh = Round2(em_locals.cf_fossil_twh)
            /\ 0 \notin em_locals.divisors
            /\ ScaledSum > 0 /\ required > 0 =>
                   /\ em_locals.cf_fossil_twh = required
                   /\ \A column \in columns :
                          scaled[column] = MulDiv(ScaledByRatio(column), required, ScaledSum)
            /\ AllRatiosZero /\ required > 0 /\ cf_capacity > 0 =>
                   /\ em_locals.cf_fossil_twh = required
                   /\ \A column \in columns :
                          scaled[column] =
                              MulDiv(required, SplitCapacity(em_locals.breakdown_cf_row, column),
                                     cf_capacity)
            /\ cf_capacity = 0 =>
                   /\ em_locals.cf_fossil_twh = 0
                   /\ \A column \in columns : scaled[column] = 0

\* a year was projected with a renormalised split over coal and gas whose
\* scaled sum was not the required fossil energy
C29_Witness ==
    /\ em_locals # <<>>
    /\ em_locals.required_fossil_twh > 0
    /\ ScaledSum > 0
    /\ ScaledSum # em_locals.required_fossil_twh
    /\ em_locals.scaled_fossil["coal"] > 0
    /\ em_locals.scaled_fossil["gas"] > 0
    /\ last_counterfactual.fossil_twh > 0

(***************************************************************************)
(* Properties of the capacity ledger                                       *)
(***************************************************************************)
\* the rows of the registry the ledger counts in year y
CountedIn(y) ==
    {k \in DOMAIN plants :
        /\ (plants[k].commission_year = None \/ plants[k].commission_year <= y)
        /\ (plants[k].closure_year = None \/ plants[k].closure_year >= y)}

\* the capacity of a set of rows of the registry
RECURSIVE CapacityOf(_)
CapacityOf(rows) ==
    IF rows = {} THEN 0
    ELSE LET k == CHOOSE r \in rows : TRUE
         IN  plants[k].capacity_mw + CapacityOf(rows \ {k})

\* C30: with no fossil builds to apply, the ledger of every year y counts the
\* plants with commission year absent or <= y and closure year absent or
\* >= y: nuclear_mw, fossil_mw and other_mw are the capacities of the counted
\* nuclear, fossil and remaining plants, the three add up to the capacity of
\* all counted plants, and the four sub-fuel buckets of the breakdown of the
\* year add up to fossil_mw
C30_LedgerCountsActivePlants ==
    fossil_builds = <<>> =>
        \A i \in DOMAIN actual_capacity :
            LET row == actual_capacity[i]
                counted == CountedIn(row.year)
                nuclear == {k \in counted : plants[k].fuel_bucket = "nuclear"}
                fossil == {k \in counted : plants[k].fuel_bucket \in FOSSIL_FUELS}
            IN  /\ row.nuclear_mw = CapacityOf(nuclear)
                /\ row.fossil_mw = CapacityOf(fossil)
                /\ row.other_mw = CapacityOf(counted \ (nuclear \cup fossil))
                /\ row.nuclear_mw + row.fossil_mw + row.other_mw = CapacityOf(counted)
                /\ actual_breakdown[i].year = row.year
                /\ SumBreakdown(actual_breakdown[i].mw) = row.fossil_mw

\* a ledger without fossil builds with nuclear, fossil and other capacity, in
\* which a fossil plant is counted in its closure year and not in the year
\* after
C30_Witness ==
    /\ fossil_builds = <<>>
    /\ \E i \in DOMAIN actual_capacity, k \in DOMAIN plants :
           /\ i + 1 \in DOMAIN actual_capacity
           /\ plants[k].fuel_bucket \in FOSSIL_FUELS
           /\ plants[k].closure_year = actual_capacity[i].year
           /\ k \in CountedIn(actual_capacity[i].year)
           /\ actual_capacity[i].fossil_mw > actual_capacity[i + 1].fossil_mw
           /\ actual_capacity[i].nuclear_mw > 0
           /\ actual_capacity[i].other_mw > 0
           /\ Cardinality({fuel \in FOSSIL_FUELS : actual_breakdown[i].mw[fuel] > 0}) >= 2

CounterBefore(n) == build_log[n].counter_before

CounterAfter(n) ==
    IF n < Len(build_log) THEN build_log[n + 1].counter_before ELSE site_unit_counter

\* the counter keys whose count the n-th unit changed
KeysChanged(n) ==
    {k \in DOMAIN CounterBefore(n) \cup DOMAIN CounterAfter(n) :
        CounterGet(CounterAfter(n), k) # CounterGet(CounterBefore(n), k)}

\* the nuclear plants of the registry that are active in START_YEAR and lie
\* in municipality m, by name
BaselineUnitsIn(m) ==
    {Strip(plants[i].name) :
        i \in {k \in DOMAIN plants : /\ plants[k].fuel_bucket = "nuclear"
                                     /\ IsActive(plants[k], START_YEAR)
                                     /\ plants[k].municipality # NaN
                                     /\ Strip(plants[k].municipality) = m}}

\* site_unit_counter before the first unit
CounterAtStart == IF build_log = <<>> THEN site_unit_counter ELSE CounterBefore(1)

\* the counters start at the baseline unit count of the baseline nuclear
\* municipalities and at 0 elsewhere; each unit adds 1 to exactly one
\* counter, that of its municipality or, without one, of its site label, and
\* carries the site label and the new count as its name
C32_OneCounterPerUnit ==
    pc \in {"loop", "done"} =>
        /\ \A m \in BaselineNuclearMunicipalities :
               CounterGet(CounterAtStart, m) = Cardinality(BaselineUnitsIn(m))
        /\ \A k \in DOMAIN CounterAtStart :
               k \in BaselineNuclearMunicipalities \/ CounterAtStart[k] = 0
        /\ \A n \in DOMAIN build_log :
               LET e == BuildEventOf(n)
                   key == IF e.municipality # <<>> THEN e.municipality ELSE e.site
               IN  /\ KeysChanged(n) = {key}
                   /\ CounterGet(CounterAfter(n), key) = CounterGet(CounterBefore(n), key) + 1
                   /\ e.name = e.site \o <<" ">> \o TXT_UNIT \o IntText(CounterGet(CounterAfter(n), key))

\* no two nuclear_build events of the run carry the same name
C32_NamesDistinct ==
    \A i, j \in BuildPlaces : i # j => events[i].name # events[j].name

\* C32: unit numbering is per site and never repeats: every unit adds 1 to
\* exactly one site counter (those of the baseline nuclear municipalities
\* start at their baseline unit count, the others at 0) and is named by its
\* site label and the new count, and no two nuclear_build events of a run
\* carry the same name
C32_UnitNumberingNeverRepeats ==
    /\ C32_OneCounterPerUnit
    /\ C32_NamesDistinct

====
